---- MODULE Spec2Model ----
(***************************************************************************)
(* The persistent multi-index stores of the browser interface:             *)
(*   web/src/mdk_storage.rs  MdkHybridStorage  (protocol state store)      *)
(*   web/src/wallet_db.rs    HybridWalletDatabase (wallet state store)     *)
(*   web/src/lib.rs          STORAGE_CACHE, WALLET_DB (the store caches)   *)
(* and the persistence medium (localStorage) they snapshot to.             *)
(***************************************************************************)
EXTENDS Integers, Sequences, FiniteSets, TLC

(***************************************************************************)
(* Bounds of the model.                                                    *)
(***************************************************************************)
\* mutating calls of one run when every operation of both stores is enabled,
\* and of one run of the callers of the protocol store and of the store caches
MaxOps == 2
\* mutating calls of one run of a specification that drives one trait
MaxTraitOps == 3
\* callers that are inside a store or the store cache at the same time
NumCallers == 2
\* protocol store instances constructed in one page session
MaxInstances == 2

(***************************************************************************)
(* Program constants.                                                      *)
(***************************************************************************)
\* [u8; 32]: the length of an application-level (nostr) group id
NostrIdLen == 32
\* an EventId is 32 bytes, 64 hex characters in to_hex / from_hex
EventIdLen == 32

(***************************************************************************)
(* Results and options.                                                    *)
(***************************************************************************)
Ok(v) == [ok |-> TRUE, val |-> v]
Err == [ok |-> FALSE]
Some(v) == [some |-> TRUE, val |-> v]
None == [some |-> FALSE]

\* HashMap::insert
MapInsert(m, k, v) == [x \in DOMAIN m \cup {k} |-> IF x = k THEN v ELSE m[x]]
\* HashMap::remove
MapRemove(m, k) == [x \in DOMAIN m \ {k} |-> m[x]]
\* HashMap::get(..).cloned()
MapGet(m, k) == IF k \in DOMAIN m THEN Some(m[k]) ELSE None
\* HashMap::values()
MapValues(m) == {m[k] : k \in DOMAIN m}
EmptyMap == [x \in {} |-> 0]

(***************************************************************************)
(* hex: text is a sequence of one-character strings.                       *)
(***************************************************************************)
HexChars == <<"0", "1", "2", "3", "4", "5", "6", "7", "8", "9", "a", "b", "c", "d", "e", "f">>
UpperHex == <<"A", "B", "C", "D", "E", "F">>

\* the two lower-case digits of every byte
HexOfByte == [b \in 0..255 |-> <<HexChars[(b \div 16) + 1], HexChars[(b % 16) + 1]>>]

\* hex::encode: two lower-case digits per byte
hex_encode(bs) ==
    [i \in 1..(2 * Len(bs)) |-> HexOfByte[bs[(i + 1) \div 2]][2 - (i % 2)]]

\* the value of a hex digit; hex::decode takes both cases
HexVal ==
    [c \in {HexChars[i] : i \in 1..16} \cup {UpperHex[i] : i \in 1..6} |->
        IF \E i \in 1..16 : HexChars[i] = c
        THEN (CHOOSE i \in 1..16 : HexChars[i] = c) - 1
        ELSE (CHOOSE i \in 1..6 : UpperHex[i] = c) + 9]

\* hex::decode: odd length or a non-hex character is an error
hex_decode(t) ==
    IF Len(t) % 2 # 0 \/ (\E i \in 1..Len(t) : t[i] \notin DOMAIN HexVal) THEN Err
    ELSE Ok([i \in 1..(Len(t) \div 2) |-> 16 * HexVal[t[2 * i - 1]] + HexVal[t[2 * i]]])

\* bytes.try_into::<[u8; 32]>()
nostr_id_from_hex(t) ==
    LET r == hex_decode(t) IN
    IF r.ok /\ Len(r.val) = NostrIdLen THEN r ELSE Err

\* EventId::to_hex / EventId::from_hex
event_id_to_hex(e) == hex_encode(e)
event_id_from_hex(t) ==
    LET r == hex_decode(t) IN
    IF r.ok /\ Len(r.val) = EventIdLen THEN r ELSE Err

(***************************************************************************)
(* decimal text of an epoch (u64), and the composite key "hex:epoch".      *)
(***************************************************************************)
DecChars == <<"0", "1", "2", "3", "4", "5", "6", "7", "8", "9">>
DecVal == [c \in {DecChars[i] : i \in 1..10} |-> (CHOOSE i \in 1..10 : DecChars[i] = c) - 1]

RECURSIVE dec_encode(_)
\* format!("{}", epoch)
dec_encode(n) ==
    IF n < 10 THEN <<DecChars[n + 1]>>
    ELSE dec_encode(n \div 10) \o <<DecChars[(n % 10) + 1]>>

RECURSIVE DecFold(_, _)
DecFold(t, acc) == IF t = <<>> THEN acc ELSE DecFold(Tail(t), 10 * acc + DecVal[Head(t)])

\* str::parse::<u64>(): an optional '+', then one or more decimal digits
\* (the epochs of the model stay far below u64::MAX, so overflow is not reached)
dec_parse(t) ==
    LET d == IF t # <<>> /\ Head(t) = "+" THEN Tail(t) ELSE t IN
    IF d = <<>> \/ (\E i \in 1..Len(d) : d[i] \notin DOMAIN DecVal) THEN Err
    ELSE Ok(DecFold(d, 0))

\* a composite key written without its separator
secret_key_encode_unseparated(gid, epoch) == hex_encode(gid) \o dec_encode(epoch)

\* format!("{}:{}", hex::encode(gid), epoch)
secret_key_encode(gid, epoch) == hex_encode(gid) \o <<":">> \o dec_encode(epoch)

ColonsAt(t) == {i \in 1..Len(t) : t[i] = ":"}

\* k.split(':') must give exactly two parts: hex group id and decimal epoch
secret_key_decode(t) ==
    IF Cardinality(ColonsAt(t)) # 1 THEN Err
    ELSE LET c == CHOOSE i \in ColonsAt(t) : TRUE
             g == hex_decode(SubSeq(t, 1, c - 1))
             e == dec_parse(SubSeq(t, c + 1, Len(t)))
         IN IF g.ok /\ e.ok THEN Ok(<<g.val, e.val>>) ELSE Err

(***************************************************************************)
(* Values the callers pass in.                                             *)
(***************************************************************************)
\* GroupId: an opaque byte string of any length
GroupIds == {<<1>>, <<171, 2>>}
\* [u8; 32]
NostrIds == {[i \in 1..NostrIdLen |-> 1], [i \in 1..NostrIdLen |-> 254]}
\* EventId
EventIds == {[i \in 1..EventIdLen |-> 16], [i \in 1..EventIdLen |-> 175]}
Epochs == {0, 12}
RelayUrls == {"wss://r1", "wss://r2"}

\* Group: the fields the store reads, and a name standing for the rest
Groups == [mls_group_id : GroupIds, nostr_group_id : NostrIds, name : {"a", "b"}]
\* Message
Messages == [id : EventIds, mls_group_id : GroupIds, content : {"x", "y"}]
\* Welcome
Welcomes == [id : EventIds, group_name : {"a", "b"}]
ProcessedWelcomes == [wrapper_event_id : EventIds]
ProcessedMessages == [wrapper_event_id : EventIds]
GroupExporterSecrets == [mls_group_id : GroupIds, epoch : Epochs, secret : {"s", "t"}]
\* the engine's raw keys and values: any byte values, empty included
EngineKeys == {<<>>, <<0, 255>>}
EngineValues == {<<>>, <<10>>}

(***************************************************************************)
(* MdkState and its snapshot document.                                     *)
(***************************************************************************)
\* MdkState::default()
MdkDefault ==
    [groups |-> EmptyMap, groups_by_nostr_id |-> EmptyMap, group_relays |-> EmptyMap,
     welcomes |-> EmptyMap, processed_welcomes |-> EmptyMap, messages |-> EmptyMap,
     messages_by_group |-> EmptyMap, processed_messages |-> EmptyMap,
     group_exporter_secrets |-> EmptyMap]

\* a collect that leaves out the members whose key does not decode
CollectResult_skips(d) ==
    LET good == {x \in d : x[1].ok}
    IN Ok([k \in {x[1].val : x \in good} |-> (CHOOSE x \in good : x[1].val = k)[2]])

\* .collect::<Result<_, String>>()? over the decoded members of a document's
\* object: the first failing key makes the whole load fail (two text keys
\* that decode to the same key keep one of the two values)
CollectResult(d) ==
    IF \E x \in d : ~x[1].ok THEN Err
    ELSE Ok([k \in {x[1].val : x \in d} |-> (CHOOSE x \in d : x[1].val = k)[2]])

\* each index as the members of a JSON object, text key and value, in no order
to_serializable(st) ==
    [groups |-> {<<hex_encode(k), st.groups[k]>> : k \in DOMAIN st.groups},
     groups_by_nostr_id |->
        {<<hex_encode(k), st.groups_by_nostr_id[k]>> : k \in DOMAIN st.groups_by_nostr_id},
     group_relays |-> {<<hex_encode(k), st.group_relays[k]>> : k \in DOMAIN st.group_relays},
     welcomes |-> {<<event_id_to_hex(k), st.welcomes[k]>> : k \in DOMAIN st.welcomes},
     processed_welcomes |->
        {<<event_id_to_hex(k), st.processed_welcomes[k]>> : k \in DOMAIN st.processed_welcomes},
     messages |-> {<<event_id_to_hex(k), st.messages[k]>> : k \in DOMAIN st.messages},
     messages_by_group |->
        {<<hex_encode(k), st.messages_by_group[k]>> : k \in DOMAIN st.messages_by_group},
     processed_messages |->
        {<<event_id_to_hex(k), st.processed_messages[k]>> : k \in DOMAIN st.processed_messages},
     group_exporter_secrets |->
        {<<secret_key_encode(k[1], k[2]), st.group_exporter_secrets[k]>> :
            k \in DOMAIN st.group_exporter_secrets}]

from_serializable(s) ==
    LET groups == CollectResult({<<hex_decode(kv[1]), kv[2]>> : kv \in s.groups})
        groups_by_nostr_id ==
            CollectResult({<<nostr_id_from_hex(kv[1]), kv[2]>> : kv \in s.groups_by_nostr_id})
        group_relays == CollectResult({<<hex_decode(kv[1]), kv[2]>> : kv \in s.group_relays})
        welcomes == CollectResult({<<event_id_from_hex(kv[1]), kv[2]>> : kv \in s.welcomes})
        processed_welcomes ==
            CollectResult({<<event_id_from_hex(kv[1]), kv[2]>> : kv \in s.processed_welcomes})
        messages == CollectResult({<<event_id_from_hex(kv[1]), kv[2]>> : kv \in s.messages})
        messages_by_group ==
            CollectResult({<<hex_decode(kv[1]), kv[2]>> : kv \in s.messages_by_group})
        processed_messages ==
            CollectResult({<<event_id_from_hex(kv[1]), kv[2]>> : kv \in s.processed_messages})
        group_exporter_secrets ==
            CollectResult({<<secret_key_decode(kv[1]), kv[2]>> : kv \in s.group_exporter_secrets})
    IN IF groups.ok /\ groups_by_nostr_id.ok /\ group_relays.ok /\ welcomes.ok
          /\ processed_welcomes.ok /\ messages.ok /\ messages_by_group.ok
          /\ processed_messages.ok /\ group_exporter_secrets.ok
       THEN Ok([groups |-> groups.val, groups_by_nostr_id |-> groups_by_nostr_id.val,
                group_relays |-> group_relays.val, welcomes |-> welcomes.val,
                processed_welcomes |-> processed_welcomes.val, messages |-> messages.val,
                messages_by_group |-> messages_by_group.val,
                processed_messages |-> processed_messages.val,
                group_exporter_secrets |-> group_exporter_secrets.val])
       ELSE Err

(***************************************************************************)
(* The persistence medium: one blob per key of localStorage.  A blob is    *)
(* absent, text that does not parse, or a parsed document.                 *)
(***************************************************************************)
NoBlob == [kind |-> "none"]
Garbage == [kind |-> "garbage"]
JsonBlob(d) == [kind |-> "json", doc |-> d]

\* serde_json::to_string(&serializable) / storage.set_item("mdk_state", &json)
mdk_state_blob(st) == JsonBlob(to_serializable(st))

\* load_mdk_state: a missing item, text that does not parse and a key that
\* does not decode are all errors
load_mdk_state(med) ==
    IF med.mdk_state.kind # "json" THEN Err ELSE from_serializable(med.mdk_state.doc)

\* a save_openmls_storage that leaves out the entries with an empty value
openmls_blob_skips_empty(values) ==
    JsonBlob({<<hex_encode(k), hex_encode(values[k])>> :
                k \in {x \in DOMAIN values : values[x] # <<>>}})

\* save_openmls_storage: hex keys and values, JSON, base64
openmls_blob(values) ==
    JsonBlob({<<hex_encode(k), hex_encode(values[k])>> : k \in DOMAIN values})

\* load_openmls_storage: a missing item is an empty storage; a failing base64,
\* JSON or hex decode is an error
load_openmls_storage(med) ==
    IF med.openmls_storage.kind = "none" THEN Ok(EmptyMap)
    ELSE IF med.openmls_storage.kind # "json" THEN Err
    ELSE LET d == {<<hex_decode(kv[1]), hex_decode(kv[2])>> : kv \in med.openmls_storage.doc}
         IN IF \E x \in d : ~x[1].ok \/ ~x[2].ok THEN Err
            ELSE Ok([k \in {x[1].val : x \in d} |-> (CHOOSE x \in d : x[1].val = k)[2].val])

(***************************************************************************)
(* State.                                                                  *)
(***************************************************************************)
VARIABLES
    medium,     \* localStorage: the blobs under mdk_state, openmls_storage, wallet_state
    mdkUp,      \* whether an MdkHybridStorage has been constructed in this page session
    mdk,        \* MdkHybridStorage.state (MdkState)
    openmls,    \* MdkHybridStorage.openmls_storage.values
    walletUp,   \* whether a HybridWalletDatabase has been constructed in this page session
    wallet,     \* HybridWalletDatabase.state (WalletState)
    last,       \* the last call: operation, argument, whether a write failed, result
                \* (and, of a construction, whether the mdk_state blob decoded)
    budget,     \* mutating calls left in this run
    hist,       \* history of the calls the in-memory protocol state stems from
    durable,    \* hist as of the mdk_state blob in the medium
    lock,       \* the caller that holds the wallet's Mutex, 0 when it is free
    pc,         \* where each caller is in its call
    frame,      \* the locals of each caller's call
    obs,        \* what each caller has last read or been returned
    mdkLock,    \* the caller that holds MdkHybridStorage.state's Mutex, 0 when it is free
    cacheLock,  \* the callers that hold the locks of STORAGE_CACHE and WALLET_DB
    cache,      \* STORAGE_CACHE: the cached protocol store instance, 0 for None
    inst,       \* the protocol store instances constructed in this page session
    handle,     \* the protocol store instance each caller holds a handle to, 0 for none
    built,      \* stores constructed and instances returned since the cache was emptied
    nostr_secret_key    \* localStorage: the item under nostr_secret_key, None when absent

vars ==
    <<medium, mdkUp, mdk, openmls, walletUp, wallet, last, budget, hist, durable,
      lock, pc, frame, obs, mdkLock, cacheLock, cache, inst, handle, built,
      nostr_secret_key>>
callVars == <<lock, pc, frame, obs>>
shareVars == <<mdkLock, cacheLock, cache, inst, handle, built, nostr_secret_key>>

\* no caller holds the lock of STORAGE_CACHE or of WALLET_DB
NoHolders == [storage |-> 0, wallet |-> 0]
\* no store was constructed and no handle returned since the cache was emptied
NoneBuilt == [storage |-> 0, wallet |-> 0, returned |-> {}]
mdkVars == <<mdkUp, mdk, openmls, hist, durable>>
walletVars == <<walletUp, wallet>>

\* what set_item can do during save_snapshot: both writes succeed, the write of
\* mdk_state fails (quota exceeded), or the write of openmls_storage fails
MdkWrites == {"ok", "fail_mdk", "fail_openmls"}

HistEmpty == [msgs |-> <<>>, welcomes |-> EmptyMap, marked |-> {}]

\* a save_snapshot that leaves the mdk_state blob as it was
save_snapshot_skips_mdk_state(med, st, values, w) ==
    IF w = "ok" THEN [med EXCEPT !.openmls_storage = openmls_blob(values)] ELSE med

\* MdkHybridStorage::save_snapshot: save_mdk_state()?; save_openmls_storage()?
save_snapshot_medium(med, st, values, w) ==
    IF w = "fail_mdk" THEN med
    ELSE IF w = "fail_openmls" THEN [med EXCEPT !.mdk_state = mdk_state_blob(st)]
    ELSE [med EXCEPT !.mdk_state = mdk_state_blob(st), !.openmls_storage = openmls_blob(values)]

save_snapshot_result(w) == IF w = "ok" THEN "ok" ELSE "err"

\* the history that goes with the mdk_state blob after a snapshot
SnapshotDurable(h, w) == IF w = "fail_mdk" THEN durable ELSE h

(***************************************************************************)
(* Construction and page reload.                                           *)
(***************************************************************************)
\* a constructor that leaves the medium as it found it
MdkNew_without_snapshot(w) ==
    /\ mdkUp = FALSE
    /\ LET loaded == load_mdk_state(medium)
           state == IF loaded.ok THEN loaded.val ELSE MdkDefault
           values == load_openmls_storage(medium)
       IN IF ~values.ok
          THEN /\ last' = [op |-> "mdk_new", arg |-> w, wfail |-> FALSE, res |-> "err",
                           loaded |-> loaded.ok]
               /\ UNCHANGED <<medium, mdkUp, mdk, openmls, hist, durable>>
          ELSE /\ last' = [op |-> "mdk_new", arg |-> w, wfail |-> FALSE, res |-> "ok",
                           loaded |-> loaded.ok]
               /\ mdkUp' = TRUE
               /\ mdk' = state
               /\ openmls' = values.val
               /\ hist' = IF loaded.ok THEN durable ELSE HistEmpty
               /\ UNCHANGED <<medium, durable>>
    /\ UNCHANGED <<budget, walletVars, callVars, shareVars>>

\* MdkHybridStorage::new
MdkNew(w) ==
    /\ mdkUp = FALSE
    /\ LET loaded == load_mdk_state(medium)
           state == IF loaded.ok THEN loaded.val ELSE MdkDefault
           values == load_openmls_storage(medium)
       IN IF ~values.ok
          THEN /\ last' = [op |-> "mdk_new", arg |-> w, wfail |-> FALSE, res |-> "err",
                           loaded |-> loaded.ok]
               /\ UNCHANGED <<medium, mdkUp, mdk, openmls, hist, durable>>
          ELSE /\ medium' = save_snapshot_medium(medium, state, values.val, w)
               /\ last' = [op |-> "mdk_new", arg |-> w, wfail |-> w # "ok",
                           res |-> save_snapshot_result(w), loaded |-> loaded.ok]
               /\ durable' = IF w = "fail_mdk" \/ loaded.ok THEN durable ELSE HistEmpty
               /\ IF w = "ok"
                  THEN /\ mdkUp' = TRUE
                       /\ mdk' = state
                       /\ openmls' = values.val
                       /\ hist' = IF loaded.ok THEN durable ELSE HistEmpty
                  ELSE UNCHANGED <<mdkUp, mdk, openmls, hist>>
    /\ UNCHANGED <<budget, walletVars, callVars, shareVars>>

(***************************************************************************)
(* GroupStorage.                                                           *)
(***************************************************************************)
all_groups(st) == MapValues(st.groups)
find_group_by_mls_group_id(st, group_id) == MapGet(st.groups, group_id)
find_group_by_nostr_group_id(st, nostr_group_id) == MapGet(st.groups_by_nostr_id, nostr_group_id)

\* save_group, the part under the lock
save_group_state(st, group) ==
    [st EXCEPT !.groups_by_nostr_id = MapInsert(@, group.nostr_group_id, group),
               !.groups = MapInsert(@, group.mls_group_id, group)]

\* a mutating call that puts the old state back when the write fails
MdkMutateRollback(op, arg, st, h, w) ==
    /\ mdkUp = TRUE
    /\ budget > 0
    /\ budget' = budget - 1
    /\ mdk' = IF w = "ok" THEN st ELSE mdk
    /\ hist' = IF w = "ok" THEN h ELSE hist
    /\ medium' = save_snapshot_medium(medium, st, openmls, w)
    /\ durable' = SnapshotDurable(h, w)
    /\ last' = [op |-> op, arg |-> arg, wfail |-> w # "ok", res |-> save_snapshot_result(w)]
    /\ UNCHANGED <<mdkUp, openmls, walletVars, callVars, shareVars>>

\* a mutating call of the protocol state store: the new state, then save_snapshot
MdkMutate(op, arg, st, h, w) ==
    /\ mdkUp = TRUE
    /\ budget > 0
    /\ budget' = budget - 1
    /\ mdk' = st
    /\ hist' = h
    /\ medium' = save_snapshot_medium(medium, st, openmls, w)
    /\ durable' = SnapshotDurable(h, w)
    /\ last' = [op |-> op, arg |-> arg, wfail |-> w # "ok", res |-> save_snapshot_result(w)]
    /\ UNCHANGED <<mdkUp, openmls, walletVars, callVars, shareVars>>

save_group(group, w) ==
    MdkMutate("save_group", group, save_group_state(mdk, group), hist, w)

\* Group.admin_pubkeys: part of what the name of a group stands for
admin_pubkeys(group) == IF group.name = "a" THEN {"pk1"} ELSE {"pk1", "pk2"}

\* an admins that is an error for a group that is not stored
admins_must_exist(st, group_id) ==
    IF group_id \in DOMAIN st.groups THEN Ok(admin_pubkeys(st.groups[group_id])) ELSE Err

\* admins: Ok(groups.get(group_id).map(|g| g.admin_pubkeys.clone()).unwrap_or_default())
admins(st, group_id) ==
    Ok(IF group_id \in DOMAIN st.groups THEN admin_pubkeys(st.groups[group_id]) ELSE {})

messages(st, group_id) ==
    IF group_id \in DOMAIN st.messages_by_group THEN st.messages_by_group[group_id] ELSE <<>>

group_relays(st, group_id) ==
    IF group_id \in DOMAIN st.group_relays THEN st.group_relays[group_id] ELSE {}

\* a replace_group_relays that adds the new relays to the ones stored
replace_group_relays_state_merges(st, group_id, relays) ==
    [st EXCEPT !.group_relays =
        MapInsert(@, group_id,
                  (IF group_id \in DOMAIN st.group_relays THEN st.group_relays[group_id] ELSE {})
                    \cup {[relay_url |-> url, mls_group_id |-> group_id] : url \in relays})]

\* replace_group_relays, the part under the lock
replace_group_relays_state(st, group_id, relays) ==
    [st EXCEPT !.group_relays =
        MapInsert(@, group_id, {[relay_url |-> url, mls_group_id |-> group_id] : url \in relays})]

replace_group_relays(group_id, relays, w) ==
    MdkMutate("replace_group_relays", <<group_id, relays>>,
              replace_group_relays_state(mdk, group_id, relays), hist, w)

get_group_exporter_secret(st, group_id, epoch) ==
    MapGet(st.group_exporter_secrets, <<group_id, epoch>>)

\* a save_group_exporter_secret that keeps what is stored under the key
save_group_exporter_secret_state_keeps(st, secret) ==
    IF <<secret.mls_group_id, secret.epoch>> \in DOMAIN st.group_exporter_secrets THEN st
    ELSE [st EXCEPT !.group_exporter_secrets =
            MapInsert(@, <<secret.mls_group_id, secret.epoch>>, secret)]

save_group_exporter_secret_state(st, secret) ==
    [st EXCEPT !.group_exporter_secrets =
        MapInsert(@, <<secret.mls_group_id, secret.epoch>>, secret)]

save_group_exporter_secret(secret, w) ==
    MdkMutate("save_group_exporter_secret", secret,
              save_group_exporter_secret_state(mdk, secret), hist, w)

(***************************************************************************)
(* MessageStorage.                                                         *)
(***************************************************************************)
\* a save_message that puts the message at the front of the group's list
save_message_state_prepend(st, message) ==
    [st EXCEPT !.messages = MapInsert(@, message.id, message),
               !.messages_by_group =
                    MapInsert(@, message.mls_group_id,
                              <<message>> \o (IF message.mls_group_id \in DOMAIN st.messages_by_group
                                              THEN st.messages_by_group[message.mls_group_id]
                                              ELSE <<>>))]

\* save_message, the part under the lock: insert by event id, push on the
\* group's list
save_message_state(st, message) ==
    [st EXCEPT !.messages = MapInsert(@, message.id, message),
               !.messages_by_group =
                    MapInsert(@, message.mls_group_id,
                              Append(messages(st, message.mls_group_id), message))]

save_message(message, w) ==
    MdkMutate("save_message", message, save_message_state(mdk, message),
              [hist EXCEPT !.msgs = Append(@, message)], w)

find_message_by_event_id(st, event_id) == MapGet(st.messages, event_id)

save_processed_message_state(st, pm) ==
    [st EXCEPT !.processed_messages = MapInsert(@, pm.wrapper_event_id, pm)]

save_processed_message(pm, w) ==
    MdkMutate("save_processed_message", pm, save_processed_message_state(mdk, pm), hist, w)

find_processed_message_by_event_id(st, event_id) == MapGet(st.processed_messages, event_id)

(***************************************************************************)
(* WelcomeStorage.                                                         *)
(***************************************************************************)
save_welcome_state(st, welcome) ==
    [st EXCEPT !.welcomes = MapInsert(@, welcome.id, welcome)]

save_welcome(welcome, w) ==
    MdkMutate("save_welcome", welcome, save_welcome_state(mdk, welcome),
              [hist EXCEPT !.welcomes = MapInsert(@, welcome.id, welcome)], w)

find_welcome_by_event_id(st, event_id) == MapGet(st.welcomes, event_id)

\* a pending_welcomes that filters nothing
pending_welcomes_unfiltered(st) == MapValues(st.welcomes)

\* pending_welcomes: the welcomes whose id is not a key of processed_welcomes
pending_welcomes(st) ==
    LET processed_ids == DOMAIN st.processed_welcomes IN
    {wl \in MapValues(st.welcomes) : wl.id \notin processed_ids}

save_processed_welcome_state(st, pw) ==
    [st EXCEPT !.processed_welcomes = MapInsert(@, pw.wrapper_event_id, pw)]

save_processed_welcome(pw, w) ==
    MdkMutate("save_processed_welcome", pw, save_processed_welcome_state(mdk, pw),
              [hist EXCEPT !.marked = @ \cup {pw.wrapper_event_id}], w)

find_processed_welcome_by_event_id(st, event_id) == MapGet(st.processed_welcomes, event_id)

(***************************************************************************)
(* MdkStorageProvider: the engine writes its sub-store through             *)
(* openmls_storage(); nothing is written to the medium by that.            *)
(***************************************************************************)
\* a set that goes through to the medium at once
engine_set_writes_through(k, v) ==
    /\ mdkUp = TRUE
    /\ budget > 0
    /\ budget' = budget - 1
    /\ openmls' = MapInsert(openmls, k, v)
    /\ medium' = [medium EXCEPT !.openmls_storage = openmls_blob(openmls')]
    /\ last' = [op |-> "engine_set", arg |-> <<k, v>>, wfail |-> FALSE, res |-> "ok"]
    /\ UNCHANGED <<mdkUp, mdk, hist, durable, walletVars, callVars, shareVars>>


engine_set(k, v) ==
    /\ mdkUp = TRUE
    /\ budget > 0
    /\ budget' = budget - 1
    /\ openmls' = MapInsert(openmls, k, v)
    /\ last' = [op |-> "engine_set", arg |-> <<k, v>>, wfail |-> FALSE, res |-> "ok"]
    /\ UNCHANGED <<medium, mdkUp, mdk, hist, durable, walletVars, callVars, shareVars>>

engine_delete(k) ==
    /\ mdkUp = TRUE
    /\ k \in DOMAIN openmls
    /\ openmls' = MapRemove(openmls, k)
    /\ last' = [op |-> "engine_delete", arg |-> k, wfail |-> FALSE, res |-> "ok"]
    /\ UNCHANGED <<medium, mdkUp, mdk, hist, durable, budget, walletVars, callVars, shareVars>>

(***************************************************************************)
(* The wallet state store.                                                 *)
(***************************************************************************)
MintUrls == {"https://m1", "https://m2"}
KeysetIds == {"k1", "k2"}
QuoteIds == {"q1", "q2"}
Ys == {"y1", "y2"}
\* Option<MintInfo>
MintInfos == {None, Some("info")}
KeySetInfos == [id : KeysetIds, active : BOOLEAN]
MintQuotes == [id : QuoteIds, state : {"unpaid", "paid"}]
MeltQuotes == [id : QuoteIds, state : {"unpaid", "paid"}]
\* cashu::KeySet
KeySets == [id : KeysetIds, keys : {"keysA", "keysB"}]
\* ProofInfo
ProofInfos ==
    [y : Ys, mint_url : {"https://m1"}, unit : {"sat"}, state : {"Unspent", "Pending"},
     spending_condition : {None}]
\* Transaction
Transactions ==
    [ys : {{"y1"}, {"y1", "y2"}}, mint_url : {"https://m1"},
     direction : {"Incoming", "Outgoing"}, unit : {"sat"}]

\* WalletState::default()
WalletDefault ==
    [mints |-> EmptyMap, keysets |-> EmptyMap, keyset_map |-> EmptyMap,
     mint_quotes |-> EmptyMap, melt_quotes |-> EmptyMap, keys |-> EmptyMap,
     proofs |-> <<>>, keyset_counters |-> EmptyMap, transactions |-> <<>>]

\* a HashMap as a JSON object: its members, in no order
JsonObject(m) == {<<k, m[k]>> : k \in DOMAIN m}
\* a JSON object read into a HashMap (a repeated key keeps one of its values)
FromJsonObject(o) ==
    [k \in {kv[1] : kv \in o} |-> (CHOOSE kv \in o : kv[1] = k)[2]]

\* #[derive(Serialize)] of WalletState / serde_json::to_string(&state)
wallet_to_json(st) ==
    [mints |-> JsonObject(st.mints), keysets |-> JsonObject(st.keysets),
     keyset_map |-> JsonObject(st.keyset_map), mint_quotes |-> JsonObject(st.mint_quotes),
     melt_quotes |-> JsonObject(st.melt_quotes), keys |-> JsonObject(st.keys),
     proofs |-> st.proofs, keyset_counters |-> JsonObject(st.keyset_counters),
     transactions |-> st.transactions]

\* #[derive(Deserialize)] of WalletState
wallet_from_json(d) ==
    [mints |-> FromJsonObject(d.mints), keysets |-> FromJsonObject(d.keysets),
     keyset_map |-> FromJsonObject(d.keyset_map),
     mint_quotes |-> FromJsonObject(d.mint_quotes),
     melt_quotes |-> FromJsonObject(d.melt_quotes), keys |-> FromJsonObject(d.keys),
     proofs |-> d.proofs, keyset_counters |-> FromJsonObject(d.keyset_counters),
     transactions |-> d.transactions]

wallet_state_blob(st) == JsonBlob(wallet_to_json(st))

\* load_from_indexeddb: a missing item and text that does not parse are errors
load_from_indexeddb(med) ==
    IF med.wallet_state.kind # "json" THEN Err ELSE Ok(wallet_from_json(med.wallet_state.doc))

\* what set_item can do during the wallet's save_snapshot
WalletWrites == {"ok", "fail"}

\* HybridWalletDatabase::save_snapshot
wallet_snapshot_medium(med, st, w) ==
    IF w = "fail" THEN med ELSE [med EXCEPT !.wallet_state = wallet_state_blob(st)]

\* HybridWalletDatabase::new
WalletNew(w) ==
    /\ walletUp = FALSE
    /\ LET loaded == load_from_indexeddb(medium)
           state == IF loaded.ok THEN loaded.val ELSE WalletDefault
       IN /\ medium' = wallet_snapshot_medium(medium, state, w)
          /\ last' = [op |-> "wallet_new", arg |-> w, wfail |-> w # "ok",
                      res |-> IF w = "ok" THEN "ok" ELSE "err"]
          /\ IF w = "ok"
             THEN walletUp' = TRUE /\ wallet' = state
             ELSE UNCHANGED <<walletUp, wallet>>
    /\ UNCHANGED <<budget, mdkVars, callVars, shareVars>>

\* the Mutex of a wallet store after a thread panicked while holding it
Poisoned == 0 - 1

\* a mutating call of the wallet store that hands a value back: lock().unwrap(),
\* the new state, then save_snapshot, then the value
WalletMutateRet(op, arg, st, w, ret) ==
    /\ walletUp = TRUE
    /\ lock # Poisoned
    /\ budget > 0
    /\ budget' = budget - 1
    /\ wallet' = st
    /\ medium' = wallet_snapshot_medium(medium, st, w)
    /\ last' = [op |-> op, arg |-> arg, wfail |-> w # "ok",
                res |-> IF w = "ok" THEN "ok" ELSE "err",
                ret |-> IF w = "ok" THEN ret ELSE None]
    /\ UNCHANGED <<walletUp, mdkVars, callVars, shareVars>>

\* a mutating call of the wallet store: the new state, then save_snapshot
WalletMutate(op, arg, st, w) == WalletMutateRet(op, arg, st, w, None)

\* the page is reloaded: the in-memory stores are gone, the medium stays
PageReload ==
    /\ mdkUp = TRUE \/ walletUp = TRUE
    /\ mdkUp' = FALSE
    /\ mdk' = MdkDefault
    /\ openmls' = EmptyMap
    /\ hist' = HistEmpty
    /\ walletUp' = FALSE
    /\ wallet' = WalletDefault
    /\ last' = [op |-> "reload", arg |-> 0, wfail |-> FALSE, res |-> "ok"]
    /\ lock' = 0
    /\ UNCHANGED <<medium, budget, durable, pc, frame, obs>>
    /\ mdkLock' = 0
    /\ cacheLock' = NoHolders
    /\ cache' = 0
    /\ inst' = <<>>
    /\ handle' = [c \in 1..NumCallers |-> 0]
    /\ built' = NoneBuilt
    /\ UNCHANGED nostr_secret_key

\* add_mint / remove_mint / update_mint_url
add_mint_state(st, mint_url, mint_info) ==
    [st EXCEPT !.mints = MapInsert(@, mint_url, mint_info)]
add_mint(mint_url, mint_info, w) ==
    WalletMutate("add_mint", <<mint_url, mint_info>>, add_mint_state(wallet, mint_url, mint_info), w)

\* a remove_mint that also drops the keyset list stored under the url
remove_mint_state_drops_keysets(st, mint_url) ==
    [st EXCEPT !.mints = MapRemove(@, mint_url), !.keysets = MapRemove(@, mint_url)]

remove_mint_state(st, mint_url) == [st EXCEPT !.mints = MapRemove(@, mint_url)]
remove_mint(mint_url, w) ==
    WalletMutate("remove_mint", mint_url, remove_mint_state(wallet, mint_url), w)

get_mint(st, mint_url) == IF mint_url \in DOMAIN st.mints THEN st.mints[mint_url] ELSE None
get_mints(st) == st.mints

update_mint_url_state(st, old_mint_url, new_mint_url) ==
    IF old_mint_url \in DOMAIN st.mints
    THEN [st EXCEPT !.mints = MapInsert(MapRemove(@, old_mint_url), new_mint_url,
                                        st.mints[old_mint_url])]
    ELSE st
update_mint_url(old_mint_url, new_mint_url, w) ==
    WalletMutate("update_mint_url", <<old_mint_url, new_mint_url>>,
                 update_mint_url_state(wallet, old_mint_url, new_mint_url), w)

\* the sequence s as a set
Range(s) == {s[i] : i \in 1..Len(s)}

RECURSIVE InsertAll(_, _)
\* for keyset in keysets { state.keyset_map.insert(keyset.id, keyset) }
InsertAll(m, keysets) ==
    IF keysets = <<>> THEN m
    ELSE InsertAll(MapInsert(m, Head(keysets).id, Head(keysets)), Tail(keysets))

add_mint_keysets_state(st, mint_url, keysets) ==
    [st EXCEPT !.keysets = MapInsert(@, mint_url, keysets),
               !.keyset_map = InsertAll(@, keysets)]
add_mint_keysets(mint_url, keysets, w) ==
    WalletMutate("add_mint_keysets", <<mint_url, keysets>>,
                 add_mint_keysets_state(wallet, mint_url, keysets), w)

get_mint_keysets(st, mint_url) == MapGet(st.keysets, mint_url)
get_keyset_by_id(st, keyset_id) == MapGet(st.keyset_map, keyset_id)

\* mint and melt quotes, keyed by quote id
add_mint_quote_state(st, quote) == [st EXCEPT !.mint_quotes = MapInsert(@, quote.id, quote)]
add_mint_quote(quote, w) ==
    WalletMutate("add_mint_quote", quote, add_mint_quote_state(wallet, quote), w)
get_mint_quote(st, quote_id) == MapGet(st.mint_quotes, quote_id)
\* get_mint_quotes / get_melt_quotes: state.mint_quotes.values().cloned().collect()
get_mint_quotes(st) == MapValues(st.mint_quotes)
get_melt_quotes(st) == MapValues(st.melt_quotes)

remove_mint_quote_state(st, quote_id) == [st EXCEPT !.mint_quotes = MapRemove(@, quote_id)]
remove_mint_quote(quote_id, w) ==
    WalletMutate("remove_mint_quote", quote_id, remove_mint_quote_state(wallet, quote_id), w)

add_melt_quote_state(st, quote) == [st EXCEPT !.melt_quotes = MapInsert(@, quote.id, quote)]
add_melt_quote(quote, w) ==
    WalletMutate("add_melt_quote", quote, add_melt_quote_state(wallet, quote), w)
get_melt_quote(st, quote_id) == MapGet(st.melt_quotes, quote_id)
remove_melt_quote_state(st, quote_id) == [st EXCEPT !.melt_quotes = MapRemove(@, quote_id)]
remove_melt_quote(quote_id, w) ==
    WalletMutate("remove_melt_quote", quote_id, remove_melt_quote_state(wallet, quote_id), w)

\* key material, keyed by keyset id
add_keys_state(st, keyset) == [st EXCEPT !.keys = MapInsert(@, keyset.id, keyset.keys)]
add_keys(keyset, w) == WalletMutate("add_keys", keyset, add_keys_state(wallet, keyset), w)
get_keys(st, id) == MapGet(st.keys, id)
remove_keys_state(st, id) == [st EXCEPT !.keys = MapRemove(@, id)]
remove_keys(id, w) == WalletMutate("remove_keys", id, remove_keys_state(wallet, id), w)

\* state.proofs.retain(|p| !removed_ys.contains(&p.y))
proofs_retain(proofs, removed_ys) == SelectSeq(proofs, LAMBDA p : p.y \notin removed_ys)
\* state.proofs.extend(added)
proofs_extend(proofs, added) == proofs \o added

\* update_proofs, the part under the lock
update_proofs_state_of(st, added, removed_ys) ==
    [st EXCEPT !.proofs = proofs_extend(proofs_retain(@, removed_ys), added)]
update_proofs(added, removed_ys, w) ==
    WalletMutate("update_proofs", <<added, removed_ys>>,
                 update_proofs_state_of(wallet, added, removed_ys), w)

\* get_proofs with the unit filter left out
get_proofs_ignores_unit(st, mint_url, unit, state, spending_conditions) ==
    SelectSeq(st.proofs, LAMBDA p :
        /\ (mint_url.some => p.mint_url = mint_url.val)
        /\ (state.some => p.state \in state.val)
        /\ (spending_conditions.some =>
                \/ (p.spending_condition.some
                        /\ p.spending_condition.val \in spending_conditions.val)
                \/ ~p.spending_condition.some))

\* get_proofs: the stored proofs that pass every supplied filter, in stored order
get_proofs(st, mint_url, unit, state, spending_conditions) ==
    SelectSeq(st.proofs, LAMBDA p :
        /\ (mint_url.some => p.mint_url = mint_url.val)
        /\ (unit.some => p.unit = unit.val)
        /\ (state.some => p.state \in state.val)
        /\ (spending_conditions.some =>
                \/ (p.spending_condition.some
                        /\ p.spending_condition.val \in spending_conditions.val)
                \/ ~p.spending_condition.some))

\* a call of get_proofs: the list is cloned under the lock and filtered;
\* nothing is written
get_proofs_call(mint_url, unit, state, spending_conditions) ==
    /\ walletUp = TRUE
    /\ lock # Poisoned
    /\ last' = [op |-> "get_proofs",
                arg |-> [mint_url |-> mint_url, unit |-> unit, state |-> state,
                         spending_conditions |-> spending_conditions],
                wfail |-> FALSE, res |-> "ok",
                ret |-> get_proofs(wallet, mint_url, unit, state, spending_conditions)]
    /\ UNCHANGED <<medium, budget, walletVars, mdkVars, callVars, shareVars>>

\* update_proofs_state that also moves the matching proofs to the end
update_proofs_state_state_reorders(st, ys, new_state) ==
    [st EXCEPT !.proofs =
        SelectSeq(@, LAMBDA p : p.y \notin ys)
            \o [i \in 1..Len(SelectSeq(@, LAMBDA p : p.y \in ys)) |->
                    [SelectSeq(@, LAMBDA p : p.y \in ys)[i] EXCEPT !.state = new_state]]]

\* update_proofs_state, the part under the lock
update_proofs_state_state(st, ys, new_state) ==
    [st EXCEPT !.proofs =
        [i \in 1..Len(@) |-> IF @[i].y \in ys THEN [@[i] EXCEPT !.state = new_state] ELSE @[i]]]
update_proofs_state(ys, new_state, w) ==
    WalletMutate("update_proofs_state", <<ys, new_state>>,
                 update_proofs_state_state(wallet, ys, new_state), w)

\* the transaction log; TransactionId::new(ys) is a hash of the sorted ys
TransactionId(ys) == ys
add_transaction_state(st, transaction) ==
    [st EXCEPT !.transactions = Append(@, transaction)]
add_transaction(transaction, w) ==
    WalletMutate("add_transaction", transaction, add_transaction_state(wallet, transaction), w)
get_transaction(st, transaction_id) ==
    LET hits == {i \in 1..Len(st.transactions) :
                    TransactionId(st.transactions[i].ys) = transaction_id}
    IN IF hits = {} THEN None
       ELSE Some(st.transactions[CHOOSE i \in hits : \A j \in hits : i <= j])
remove_transaction_state(st, transaction_id) ==
    [st EXCEPT !.transactions = SelectSeq(@, LAMBDA t : TransactionId(t.ys) # transaction_id)]
remove_transaction(transaction_id, w) ==
    WalletMutate("remove_transaction", transaction_id,
                 remove_transaction_state(wallet, transaction_id), w)

\* a list_transactions that does not look at the unit
list_transactions_ignores_unit(st, mint_url, direction, unit) ==
    SelectSeq(st.transactions, LAMBDA t :
        /\ (mint_url.some => t.mint_url = mint_url.val)
        /\ (direction.some => t.direction = direction.val))

\* list_transactions: the stored transactions that pass every supplied filter
list_transactions(st, mint_url, direction, unit) ==
    SelectSeq(st.transactions, LAMBDA t :
        /\ (mint_url.some => t.mint_url = mint_url.val)
        /\ (direction.some => t.direction = direction.val)
        /\ (unit.some => t.unit = unit.val))

\* a u32 as its two 16-bit halves
U32(hi, lo) == [hi |-> hi, lo |-> lo]
\* *counter += count on u32, wrapping
u32_add(a, b) ==
    LET lo == a.lo + b.lo
        hi == a.hi + b.hi + (lo \div 65536)
    IN U32(hi % 65536, lo % 65536)

\* *counter += count leaves the range of u32
u32_add_overflows(a, b) == a.hi + b.hi + ((a.lo + b.lo) \div 65536) >= 65536

\* the counter of a keyset id as entry().or_insert(0) finds it
keyset_counter(st, keyset_id) ==
    IF keyset_id \in DOMAIN st.keyset_counters
    THEN st.keyset_counters[keyset_id] ELSE U32(0, 0)

\* increment_keyset_counter with the stored sum replaced by the amount
increment_keyset_counter_state_overwrites(st, keyset_id, count) ==
    [st EXCEPT !.keyset_counters = MapInsert(@, keyset_id, count)]

\* increment_keyset_counter, the part under the lock: entry().or_insert(0), +=
increment_keyset_counter_state(st, keyset_id, count) ==
    [st EXCEPT !.keyset_counters =
        MapInsert(@, keyset_id, u32_add(keyset_counter(st, keyset_id), count))]

\* increment_keyset_counter.  With overflow checks compiled in, a sum out of
\* range panics under the lock: the Mutex is poisoned and nothing is written.
\* Without them the sum wraps.
increment_keyset_counter(keyset_id, count, w, overflow_checks) ==
    IF overflow_checks /\ u32_add_overflows(keyset_counter(wallet, keyset_id), count)
    THEN /\ walletUp = TRUE
         /\ lock # Poisoned
         /\ budget > 0
         /\ budget' = budget - 1
         /\ lock' = Poisoned
         /\ last' = [op |-> "increment_keyset_counter", arg |-> <<keyset_id, count>>,
                     wfail |-> FALSE, res |-> "panic", ret |-> None]
         /\ UNCHANGED <<medium, walletVars, mdkVars, pc, frame, obs, shareVars>>
    ELSE LET st == increment_keyset_counter_state(wallet, keyset_id, count)
         IN WalletMutateRet("increment_keyset_counter", <<keyset_id, count>>, st, w,
                            Some(st.keyset_counters[keyset_id]))

(***************************************************************************)
(* The wallet store under concurrent callers.  Each call is cut where the  *)
(* Mutex is taken and released: update_proofs holds it over retain and     *)
(* extend, get_proofs and save_snapshot hold it for one clone.             *)
(***************************************************************************)
Callers == 1..NumCallers

NoFrame ==
    [op |-> "none", added |-> <<>>, ys |-> {}, new_state |-> "Unspent", before |-> <<>>,
     snapshot |-> WalletDefault]
NoObs == [some |-> FALSE]

\* a lock whose holder does not keep the others out
can_lock_always(holder) == TRUE

\* self.state.lock(): the Mutex is entered when no caller holds it
can_lock(holder) == holder = 0

\* the proof list a caller reads; it is torn when an update_proofs call has
\* removed its proofs from it and not yet added its new ones
Observe(proofs) ==
    [some |-> TRUE, list |-> proofs,
     torn |-> \E u \in Callers :
                /\ pc[u] = "extend"
                /\ proofs # frame[u].before
                /\ proofs # proofs_extend(proofs, frame[u].added)]

\* update_proofs: let mut state = self.state.lock().unwrap()
update_proofs_lock(c, added, removed_ys) ==
    /\ walletUp = TRUE
    /\ pc[c] = "idle"
    /\ budget > 0
    /\ can_lock(lock)
    /\ budget' = budget - 1
    /\ lock' = c
    /\ pc' = [pc EXCEPT ![c] = "retain"]
    /\ frame' = [frame EXCEPT ![c] = [NoFrame EXCEPT !.op = "update_proofs",
                                                      !.added = added,
                                                      !.ys = removed_ys,
                                                      !.before = wallet.proofs]]
    /\ UNCHANGED <<medium, mdkVars, walletVars, last, obs, shareVars>>

\* state.proofs.retain(|p| !removed_ys.contains(&p.y))
update_proofs_retain(c) ==
    /\ pc[c] = "retain"
    /\ wallet' = [wallet EXCEPT !.proofs = proofs_retain(@, frame[c].ys)]
    /\ pc' = [pc EXCEPT ![c] = "extend"]
    /\ UNCHANGED <<medium, mdkVars, walletUp, last, budget, lock, frame, obs, shareVars>>

\* state.proofs.extend(added), and the guard is dropped at the end of the block
update_proofs_extend(c) ==
    /\ pc[c] = "extend"
    /\ wallet' = [wallet EXCEPT !.proofs = proofs_extend(@, frame[c].added)]
    /\ lock' = 0
    /\ pc' = [pc EXCEPT ![c] = "snapshot"]
    /\ UNCHANGED <<medium, mdkVars, walletUp, last, budget, frame, obs, shareVars>>

\* save_snapshot: let state = self.state.lock().unwrap().clone()
save_snapshot_clone(c) ==
    /\ pc[c] = "snapshot"
    /\ can_lock(lock)
    /\ frame' = [frame EXCEPT ![c].snapshot = wallet]
    /\ pc' = [pc EXCEPT ![c] = "write"]
    /\ UNCHANGED <<medium, mdkVars, walletVars, last, budget, lock, obs, shareVars>>

\* save_snapshot: storage.set_item("wallet_state", &json)?, and the call returns
save_snapshot_write(c, w) ==
    /\ pc[c] = "write"
    /\ medium' = wallet_snapshot_medium(medium, frame[c].snapshot, w)
    /\ pc' = [pc EXCEPT ![c] = "idle"]
    /\ frame' = [frame EXCEPT ![c] = NoFrame]
    /\ last' = [op |-> frame[c].op,
                arg |-> IF frame[c].op = "update_proofs"
                        THEN <<frame[c].added, frame[c].ys>>
                        ELSE <<frame[c].ys, frame[c].new_state>>,
                wfail |-> w # "ok", res |-> IF w = "ok" THEN "ok" ELSE "err"]
    /\ UNCHANGED <<mdkVars, walletVars, budget, lock, obs, shareVars>>

\* get_proofs: let proofs = self.state.lock().unwrap().proofs.clone()
get_proofs_clone(c) ==
    /\ walletUp = TRUE
    /\ pc[c] = "idle"
    /\ budget > 0
    /\ can_lock(lock)
    /\ budget' = budget - 1
    /\ obs' = [obs EXCEPT ![c] = Observe(wallet.proofs)]
    /\ UNCHANGED <<medium, mdkVars, walletVars, last, lock, pc, frame, shareVars>>

\* update_proofs_state: let mut state = self.state.lock().unwrap()
update_proofs_state_lock(c, ys, new_state) ==
    /\ walletUp = TRUE
    /\ pc[c] = "idle"
    /\ budget > 0
    /\ can_lock(lock)
    /\ budget' = budget - 1
    /\ lock' = c
    /\ pc' = [pc EXCEPT ![c] = "set_state"]
    /\ frame' = [frame EXCEPT ![c] = [NoFrame EXCEPT !.op = "update_proofs_state",
                                                      !.ys = ys,
                                                      !.new_state = new_state]]
    /\ UNCHANGED <<medium, mdkVars, walletVars, last, obs, shareVars>>

\* for proof in &mut state.proofs { ... }, and the guard is dropped
update_proofs_state_loop(c) ==
    /\ pc[c] = "set_state"
    /\ obs' = [obs EXCEPT ![c] = Observe(wallet.proofs)]
    /\ wallet' = update_proofs_state_state(wallet, frame[c].ys, frame[c].new_state)
    /\ lock' = 0
    /\ pc' = [pc EXCEPT ![c] = "snapshot"]
    /\ UNCHANGED <<medium, mdkVars, walletUp, last, budget, frame, shareVars>>

(***************************************************************************)
(* The protocol state store under concurrent callers.  A mutating call     *)
(* takes the state Mutex, mutates and drops the guard; save_mdk_state      *)
(* takes it again and holds it over serialisation and set_item.            *)
(***************************************************************************)
\* a state Mutex whose holder does not keep the others out
mdk_can_lock_always(holder) == TRUE

\* self.state.lock() of MdkHybridStorage: entered when no caller holds it
mdk_can_lock(holder) == holder = 0

\* what a call of the protocol store handed back to its caller
Returned(res) == [some |-> TRUE, res |-> res]

\* save_message: lock, insert by event id, push on the group's list, drop(state)
save_message_mutate(c, message) ==
    /\ mdkUp = TRUE
    /\ pc[c] = "idle"
    /\ budget > 0
    /\ mdk_can_lock(mdkLock)
    /\ budget' = budget - 1
    /\ mdk' = save_message_state(mdk, message)
    /\ hist' = [hist EXCEPT !.msgs = Append(@, message)]
    /\ pc' = [pc EXCEPT ![c] = "save_mdk_state"]
    /\ frame' = [frame EXCEPT ![c] = [NoFrame EXCEPT !.op = "save_message",
                                                      !.added = <<message>>]]
    /\ UNCHANGED <<medium, mdkUp, openmls, durable, walletVars, last, lock, obs, shareVars>>

\* save_mdk_state: let state = self.state.lock().unwrap(), to_serializable,
\* serde_json::to_string
save_mdk_state_lock(c) ==
    /\ pc[c] = "save_mdk_state"
    /\ mdk_can_lock(mdkLock)
    /\ mdkLock' = c
    /\ frame' = [frame EXCEPT ![c].snapshot = mdk_state_blob(mdk)]
    /\ pc' = [pc EXCEPT ![c] = "set_item"]
    /\ UNCHANGED <<medium, mdkVars, walletVars, last, budget, lock, obs,
                   cacheLock, cache, inst, handle, built, nostr_secret_key>>

\* a save_snapshot that goes on to save_openmls_storage whatever
\* save_mdk_state returned
save_mdk_state_set_item_ignores_error(c, w) ==
    /\ pc[c] = "set_item"
    /\ mdkLock' = 0
    /\ medium' = IF w = "fail_mdk" THEN medium
                 ELSE [medium EXCEPT !.mdk_state = frame[c].snapshot]
    /\ durable' = IF w = "fail_mdk" THEN durable ELSE hist
    /\ pc' = [pc EXCEPT ![c] = "save_openmls_storage"]
    /\ UNCHANGED <<obs, last, frame>>
    /\ UNCHANGED <<mdkUp, mdk, openmls, hist, walletVars, budget, lock,
                   cacheLock, cache, inst, handle, built, nostr_secret_key>>

\* save_mdk_state: storage.set_item("mdk_state", &json)?, the guard dropped on
\* return; on an error save_snapshot and the call return it
save_mdk_state_set_item(c, w) ==
    /\ pc[c] = "set_item"
    /\ mdkLock' = 0
    /\ IF w = "fail_mdk"
       THEN /\ pc' = [pc EXCEPT ![c] = "idle"]
            /\ obs' = [obs EXCEPT ![c] = Returned("err")]
            /\ last' = [op |-> frame[c].op, arg |-> frame[c].added[1], wfail |-> TRUE,
                        res |-> "err"]
            /\ frame' = [frame EXCEPT ![c] = NoFrame]
            /\ UNCHANGED <<medium, durable>>
       ELSE /\ medium' = [medium EXCEPT !.mdk_state = frame[c].snapshot]
            /\ durable' = hist
            /\ pc' = [pc EXCEPT ![c] = "save_openmls_storage"]
            /\ UNCHANGED <<obs, last, frame>>
    /\ UNCHANGED <<mdkUp, mdk, openmls, hist, walletVars, budget, lock,
                   cacheLock, cache, inst, handle, built, nostr_secret_key>>

\* save_openmls_storage: values.read(), encode, set_item("openmls_storage"),
\* and the call returns
save_openmls_storage_write(c, w) ==
    /\ pc[c] = "save_openmls_storage"
    /\ medium' = IF w = "fail_openmls" THEN medium
                 ELSE [medium EXCEPT !.openmls_storage = openmls_blob(openmls)]
    /\ pc' = [pc EXCEPT ![c] = "idle"]
    /\ obs' = [obs EXCEPT ![c] = Returned(save_snapshot_result(w))]
    /\ last' = [op |-> frame[c].op, arg |-> frame[c].added[1], wfail |-> w # "ok",
                res |-> save_snapshot_result(w)]
    /\ frame' = [frame EXCEPT ![c] = NoFrame]
    /\ UNCHANGED <<mdkVars, walletVars, budget, lock, shareVars>>

\* save_group: let mut state = self.state.lock().unwrap()
save_group_lock(c, group) ==
    /\ mdkUp = TRUE
    /\ pc[c] = "idle"
    /\ budget > 0
    /\ mdk_can_lock(mdkLock)
    /\ mdkLock' = c
    /\ budget' = budget - 1
    /\ pc' = [pc EXCEPT ![c] = "insert_groups_by_nostr_id"]
    /\ frame' = [frame EXCEPT ![c] = [NoFrame EXCEPT !.op = "save_group", !.added = <<group>>]]
    /\ UNCHANGED <<medium, mdkVars, walletVars, last, lock, obs,
                   cacheLock, cache, inst, handle, built, nostr_secret_key>>

\* save_group: state.groups_by_nostr_id.insert(group.nostr_group_id, group.clone())
save_group_insert_groups_by_nostr_id(c) ==
    /\ pc[c] = "insert_groups_by_nostr_id"
    /\ mdk' = [mdk EXCEPT !.groups_by_nostr_id =
                    MapInsert(@, frame[c].added[1].nostr_group_id, frame[c].added[1])]
    /\ pc' = [pc EXCEPT ![c] = "insert_groups"]
    /\ UNCHANGED <<medium, mdkUp, openmls, hist, durable, walletVars, last, budget, lock,
                   frame, obs, shareVars>>

\* a save_group that keeps its guard alive into save_snapshot
save_group_insert_groups_holds(c) ==
    /\ pc[c] = "insert_groups"
    /\ mdk' = [mdk EXCEPT !.groups =
                    MapInsert(@, frame[c].added[1].mls_group_id, frame[c].added[1])]
    /\ pc' = [pc EXCEPT ![c] = "save_mdk_state"]
    /\ UNCHANGED <<medium, mdkUp, openmls, hist, durable, walletVars, last, budget, lock,
                   frame, obs, shareVars>>

\* save_group: state.groups.insert(group.mls_group_id.clone(), group); drop(state)
save_group_insert_groups(c) ==
    /\ pc[c] = "insert_groups"
    /\ mdk' = [mdk EXCEPT !.groups =
                    MapInsert(@, frame[c].added[1].mls_group_id, frame[c].added[1])]
    /\ mdkLock' = 0
    /\ pc' = [pc EXCEPT ![c] = "save_mdk_state"]
    /\ UNCHANGED <<medium, mdkUp, openmls, hist, durable, walletVars, last, budget, lock,
                   frame, obs, cacheLock, cache, inst, handle, built, nostr_secret_key>>

\* what a lookup of a group handed back, the groups whose save_group was
\* running at that moment, and whether one of those was in one of the two
\* indexes and not in the other
ObserveGroup(ret) ==
    LET saving == {frame[u].added[1] : u \in {v \in Callers : frame[v].op = "save_group"}}
    IN [some |-> TRUE, ret |-> ret, saving |-> saving,
        torn |-> \E g \in saving :
                    (find_group_by_nostr_group_id(mdk, g.nostr_group_id) = Some(g))
                        # (find_group_by_mls_group_id(mdk, g.mls_group_id) = Some(g))]

\* find_group_by_mls_group_id: lock, groups.get(group_id).cloned()
find_group_by_mls_group_id_call(c, group_id) ==
    /\ mdkUp = TRUE
    /\ pc[c] = "idle"
    /\ mdk_can_lock(mdkLock)
    /\ obs' = [obs EXCEPT ![c] = ObserveGroup(find_group_by_mls_group_id(mdk, group_id))]
    /\ UNCHANGED <<medium, mdkVars, walletVars, last, budget, lock, pc, frame, shareVars>>

\* find_group_by_nostr_group_id: lock, groups_by_nostr_id.get(nostr_group_id).cloned()
find_group_by_nostr_group_id_call(c, nostr_group_id) ==
    /\ mdkUp = TRUE
    /\ pc[c] = "idle"
    /\ mdk_can_lock(mdkLock)
    /\ obs' = [obs EXCEPT ![c] =
                    ObserveGroup(find_group_by_nostr_group_id(mdk, nostr_group_id))]
    /\ UNCHANGED <<medium, mdkVars, walletVars, last, budget, lock, pc, frame, shareVars>>

\* a lookup of the protocol state store, with the Result it returns; nothing
\* is written
\* a read that ends with a snapshot, as the mutating operations do
MdkRead_snapshots(op, arg, result) ==
    /\ mdkUp = TRUE
    /\ last' = [op |-> op, arg |-> arg, wfail |-> FALSE,
                res |-> IF result.ok THEN "ok" ELSE "err",
                ret |-> IF result.ok THEN result.val ELSE None]
    /\ medium' = save_snapshot_medium(medium, mdk, openmls, "ok")
    /\ durable' = hist
    /\ UNCHANGED <<budget, mdkUp, mdk, openmls, hist, walletVars, callVars, shareVars>>

MdkRead(op, arg, result) ==
    /\ mdkUp = TRUE
    /\ last' = [op |-> op, arg |-> arg, wfail |-> FALSE,
                res |-> IF result.ok THEN "ok" ELSE "err",
                ret |-> IF result.ok THEN result.val ELSE None]
    /\ UNCHANGED <<medium, budget, mdkVars, walletVars, callVars, shareVars>>

\* a lookup of the wallet state store
WalletRead(op, arg, result) ==
    /\ walletUp = TRUE
    /\ lock # Poisoned
    /\ last' = [op |-> op, arg |-> arg, wfail |-> FALSE,
                res |-> IF result.ok THEN "ok" ELSE "err",
                ret |-> IF result.ok THEN result.val ELSE None]
    /\ UNCHANGED <<medium, budget, mdkVars, walletVars, callVars, shareVars>>

\* a call of list_transactions: the log is cloned under the lock and filtered
list_transactions_call(mint_url, direction, unit) ==
    WalletRead("list_transactions",
               [mint_url |-> mint_url, direction |-> direction, unit |-> unit],
               Ok(list_transactions(wallet, mint_url, direction, unit)))

(***************************************************************************)
(* The store caches of lib.rs.  STORAGE_CACHE and WALLET_DB are slots      *)
(* behind an async lock; get_or_create_* holds the lock from the look at   *)
(* the slot to the end of the construction, across the await of new().     *)
(***************************************************************************)
\* a cache lock whose holder does not keep the others out
cache_can_lock_always(holder) == TRUE

\* STORAGE_CACHE.lock().await / WALLET_DB.lock().await: resumed when the lock is free
cache_can_lock(holder) == holder = 0

\* get_or_create_storage: let mut cache = STORAGE_CACHE.lock().await
get_or_create_storage_lock(c) ==
    /\ pc[c] = "idle"
    /\ cache_can_lock(cacheLock.storage)
    /\ cacheLock' = [cacheLock EXCEPT !.storage = c]
    /\ pc' = [pc EXCEPT ![c] = "storage_check"]
    /\ UNCHANGED <<medium, mdkVars, walletVars, last, budget, lock, frame, obs,
                   mdkLock, cache, inst, handle, built, nostr_secret_key>>

\* get_or_create_storage: if let Some(storage) = cache.as_ref() { return a
\* handle on it }
get_or_create_storage_check(c) ==
    /\ pc[c] = "storage_check"
    /\ IF cache # 0
       THEN /\ handle' = [handle EXCEPT ![c] = cache]
            /\ built' = [built EXCEPT !.returned = @ \cup {cache}]
            /\ cacheLock' = [cacheLock EXCEPT !.storage = 0]
            /\ pc' = [pc EXCEPT ![c] = "idle"]
       ELSE /\ pc' = [pc EXCEPT ![c] = "storage_new"]
            /\ UNCHANGED <<handle, built, cacheLock>>
    /\ UNCHANGED <<medium, mdkVars, walletVars, last, budget, lock, frame, obs,
                   mdkLock, cache, inst, nostr_secret_key>>

\* get_or_create_storage: Arc::new(MdkHybridStorage::new().await?), stored in
\* the slot and handed out; an error of new() leaves the slot empty
get_or_create_storage_new(c, w) ==
    /\ pc[c] = "storage_new"
    /\ Len(inst) < MaxInstances
    /\ LET loaded == load_mdk_state(medium)
           state == IF loaded.ok THEN loaded.val ELSE MdkDefault
           values == load_openmls_storage(medium)
           id == Len(inst) + 1
       IN /\ medium' = IF values.ok THEN save_snapshot_medium(medium, state, values.val, w)
                       ELSE medium
          /\ IF values.ok /\ w = "ok"
             THEN /\ inst' = Append(inst, [state |-> state, values |-> values.val])
                  /\ cache' = id
                  /\ handle' = [handle EXCEPT ![c] = id]
                  /\ built' = [built EXCEPT !.storage = @ + 1, !.returned = @ \cup {id}]
                   ELSE UNCHANGED <<inst, cache, handle, built>>
    /\ cacheLock' = [cacheLock EXCEPT !.storage = 0]
    /\ pc' = [pc EXCEPT ![c] = "idle"]
    /\ UNCHANGED <<mdkVars, walletVars, last, budget, lock, frame, obs, mdkLock, nostr_secret_key>>

\* clear_storage_cache: lock, *cache = None
clear_storage_cache(c) ==
    /\ pc[c] = "idle"
    /\ cache_can_lock(cacheLock.storage)
    /\ cache # 0
    /\ cache' = 0
    /\ built' = [built EXCEPT !.storage = 0, !.returned = {}]
    /\ UNCHANGED <<medium, mdkVars, walletVars, last, budget, callVars,
                   mdkLock, cacheLock, inst, handle, nostr_secret_key>>

\* get_or_create_wallet_db: let mut cache = WALLET_DB.lock().await
get_or_create_wallet_db_lock(c) ==
    /\ pc[c] = "idle"
    /\ cache_can_lock(cacheLock.wallet)
    /\ cacheLock' = [cacheLock EXCEPT !.wallet = c]
    /\ pc' = [pc EXCEPT ![c] = "wallet_check"]
    /\ UNCHANGED <<medium, mdkVars, walletVars, last, budget, lock, frame, obs,
                   mdkLock, cache, inst, handle, built, nostr_secret_key>>

\* get_or_create_wallet_db: if let Some(db) = cache.as_ref() { return db.clone() }
get_or_create_wallet_db_check(c) ==
    /\ pc[c] = "wallet_check"
    /\ IF walletUp
       THEN /\ cacheLock' = [cacheLock EXCEPT !.wallet = 0]
            /\ pc' = [pc EXCEPT ![c] = "idle"]
       ELSE /\ pc' = [pc EXCEPT ![c] = "wallet_new"]
            /\ UNCHANGED cacheLock
    /\ UNCHANGED <<medium, mdkVars, walletVars, last, budget, lock, frame, obs,
                   mdkLock, cache, inst, handle, built, nostr_secret_key>>

\* get_or_create_wallet_db: HybridWalletDatabase::new().await?, stored in the
\* slot and handed out; an error of new() leaves the slot empty
get_or_create_wallet_db_new(c, w) ==
    /\ pc[c] = "wallet_new"
    /\ built.wallet < MaxInstances
    /\ LET loaded == load_from_indexeddb(medium)
           state == IF loaded.ok THEN loaded.val ELSE WalletDefault
       IN /\ medium' = wallet_snapshot_medium(medium, state, w)
          /\ IF w = "ok"
             THEN /\ walletUp' = TRUE
                  /\ wallet' = state
                  /\ built' = [built EXCEPT !.wallet = @ + 1]
                   ELSE UNCHANGED <<walletUp, wallet, built>>
    /\ cacheLock' = [cacheLock EXCEPT !.wallet = 0]
    /\ pc' = [pc EXCEPT ![c] = "idle"]
    /\ UNCHANGED <<mdkVars, last, budget, lock, frame, obs, mdkLock, cache, inst, handle, nostr_secret_key>>

\* save_message through the handle a caller holds: the mutation and the
\* snapshot of the instance behind the handle
handle_save_message(c, message, w) ==
    /\ pc[c] = "idle"
    /\ handle[c] # 0
    /\ budget > 0
    /\ budget' = budget - 1
    /\ inst' = [inst EXCEPT ![handle[c]].state = save_message_state(@, message)]
    /\ medium' = save_snapshot_medium(medium, inst'[handle[c]].state,
                                      inst[handle[c]].values, w)
    /\ last' = [op |-> "save_message", arg |-> message, wfail |-> w # "ok",
                res |-> save_snapshot_result(w)]
    /\ UNCHANGED <<mdkVars, walletVars, callVars, mdkLock, cacheLock, cache, handle, built, nostr_secret_key>>

(***************************************************************************)
(* The identity: generate_keys and clear_keys of the page's module.        *)
(***************************************************************************)
\* Keys::generate().secret_key().to_secret_hex(): any of the secrets
SecretKeys == {"sk1", "sk2"}

\* a removal that takes the wallet's blob with it
remove_mdk_state_and_wallet(med) == [med EXCEPT !.mdk_state = NoBlob, !.wallet_state = NoBlob]

\* storage.remove_item("mdk_state")
remove_mdk_state(med) == [med EXCEPT !.mdk_state = NoBlob]

\* generate_keys: remove_item("mdk_state")?, then set_item("nostr_secret_key")?;
\* STORAGE_CACHE, WALLET_DB and the other two blobs are not touched
generate_keys(secret_hex, w) ==
    /\ medium' = remove_mdk_state(medium)
    /\ nostr_secret_key' = IF w = "ok" THEN Some(secret_hex) ELSE nostr_secret_key
    /\ durable' = HistEmpty
    /\ last' = [op |-> "generate_keys", arg |-> secret_hex, wfail |-> w # "ok",
                res |-> IF w = "ok" THEN "ok" ELSE "err"]
    /\ UNCHANGED <<mdkUp, mdk, openmls, hist, walletVars, budget, callVars,
                   mdkLock, cacheLock, cache, inst, handle, built>>

\* clear_keys: remove_item("nostr_secret_key")?, remove_item("mdk_state")?
clear_keys ==
    /\ nostr_secret_key' = None
    /\ medium' = remove_mdk_state(medium)
    /\ durable' = HistEmpty
    /\ last' = [op |-> "clear_keys", arg |-> 0, wfail |-> FALSE, res |-> "ok"]
    /\ UNCHANGED <<mdkUp, mdk, openmls, hist, walletVars, budget, callVars,
                   mdkLock, cacheLock, cache, inst, handle, built>>

\* save_storage (lib.rs): get_or_create_storage().await?, then
\* storage.inner().save_snapshot().  The store cached for the session is
\* snapshotted as it is; with none cached one is constructed first (load,
\* initial snapshot with write outcome w0) and snapshotted again
save_storage(w0, w) ==
    IF mdkUp
    THEN /\ w0 = "ok"
         /\ medium' = save_snapshot_medium(medium, mdk, openmls, w)
         /\ durable' = SnapshotDurable(hist, w)
         /\ last' = [op |-> "save_storage", arg |-> w, wfail |-> w # "ok",
                     res |-> save_snapshot_result(w)]
         /\ UNCHANGED <<mdkUp, mdk, openmls, hist, budget, walletVars, callVars, shareVars>>
    ELSE LET loaded == load_mdk_state(medium)
             state == IF loaded.ok THEN loaded.val ELSE MdkDefault
             values == load_openmls_storage(medium)
             built0 == save_snapshot_medium(medium, state, values.val, w0)
             ok0 == values.ok /\ w0 = "ok"
         IN /\ ~ok0 => w = "ok"
            /\ medium' = IF ~values.ok THEN medium
                         ELSE IF w0 # "ok" THEN built0
                         ELSE save_snapshot_medium(built0, state, values.val, w)
            /\ durable' = IF ~values.ok \/ w0 = "fail_mdk" \/ loaded.ok THEN durable
                          ELSE HistEmpty
            /\ IF ok0
               THEN /\ mdkUp' = TRUE
                    /\ mdk' = state
                    /\ openmls' = values.val
                    /\ hist' = IF loaded.ok THEN durable ELSE HistEmpty
               ELSE UNCHANGED <<mdkUp, mdk, openmls, hist>>
            /\ last' = [op |-> "save_storage", arg |-> w,
                        wfail |-> values.ok /\ (w0 # "ok" \/ w # "ok"),
                        res |-> IF ok0 THEN save_snapshot_result(w) ELSE "err"]
            /\ UNCHANGED <<budget, walletVars, callVars, shareVars>>

(***************************************************************************)
(* Initial states and specifications.                                      *)
(***************************************************************************)
\* no store is cached, no handle is held, no lock is taken
ShareInit ==
    /\ mdkLock = 0
    /\ cacheLock = NoHolders
    /\ cache = 0
    /\ inst = <<>>
    /\ handle = [c \in Callers |-> 0]
    /\ built = NoneBuilt
    /\ nostr_secret_key = None

\* a protocol-state document with a key that is not hex (odd length)
BadKeyDoc == [to_serializable(MdkDefault) EXCEPT !.groups = {<<<<"0", "1", "a">>, "g">>}]

\* what localStorage may hold when the page is opened: nothing, text that
\* does not parse under any of the three keys, or a document with a bad key
InitialMedia ==
    {[mdk_state |-> NoBlob, openmls_storage |-> NoBlob, wallet_state |-> NoBlob],
     [mdk_state |-> Garbage, openmls_storage |-> NoBlob, wallet_state |-> NoBlob],
     [mdk_state |-> NoBlob, openmls_storage |-> Garbage, wallet_state |-> Garbage],
     [mdk_state |-> JsonBlob(BadKeyDoc), openmls_storage |-> NoBlob, wallet_state |-> NoBlob]}

InitWith(n) ==
    /\ medium \in InitialMedia
    /\ mdkUp = FALSE
    /\ mdk = MdkDefault
    /\ openmls = EmptyMap
    /\ walletUp = FALSE
    /\ wallet = WalletDefault
    /\ last = [op |-> "init", arg |-> 0, wfail |-> FALSE, res |-> "ok"]
    /\ budget = n
    /\ hist = HistEmpty
    /\ durable = HistEmpty
    /\ lock = 0
    /\ pc = [c \in Callers |-> "idle"]
    /\ frame = [c \in Callers |-> NoFrame]
    /\ obs = [c \in Callers |-> NoObs]
    /\ ShareInit

Init == InitWith(MaxOps)
InitTrait == InitWith(MaxTraitOps)

\* the write outcomes drawn where one trait is driven in depth
TraitWrites == {"ok", "fail_mdk"}

MdkLifecycle == (\E w \in MdkWrites : MdkNew(w)) \/ PageReload

GroupNext == \E g \in Groups, w \in TraitWrites : save_group(g, w)

MessageNext == \E m \in Messages, w \in TraitWrites : save_message(m, w)

WelcomeNext ==
    \/ \E wl \in Welcomes, w \in TraitWrites : save_welcome(wl, w)
    \/ \E pw \in ProcessedWelcomes, w \in TraitWrites : save_processed_welcome(pw, w)

\* the protocol state store's groups
SpecGroups == InitTrait /\ [][MdkLifecycle \/ GroupNext]_vars
\* the protocol state store's messages
SpecMessages == InitTrait /\ [][MdkLifecycle \/ MessageNext]_vars
\* the protocol state store's welcomes
SpecWelcomes == InitTrait /\ [][MdkLifecycle \/ WelcomeNext]_vars

\* the inputs drawn where every operation of both stores is enabled
SomeGroups == {g \in Groups : g.mls_group_id = <<1>> /\ g.name = "a"}
SomeMessages == {m \in Messages : m.mls_group_id = <<171, 2>> /\ m.content = "x"}
SomeWelcomes == {wl \in Welcomes : wl.group_name = "a"}
SomeSecrets == {x \in GroupExporterSecrets : x.mls_group_id = <<171, 2>> /\ x.epoch = 12}
SomeProofs == {p \in ProofInfos : p.state = "Unspent"}

MdkNext ==
    \/ \E g \in SomeGroups, w \in MdkWrites : save_group(g, w)
    \/ \E w \in TraitWrites : replace_group_relays(<<1>>, RelayUrls, w)
    \/ \E x \in SomeSecrets, w \in TraitWrites : save_group_exporter_secret(x, w)
    \/ \E m \in SomeMessages, w \in TraitWrites : save_message(m, w)
    \/ \E pm \in ProcessedMessages, w \in TraitWrites : save_processed_message(pm, w)
    \/ \E wl \in SomeWelcomes, w \in TraitWrites : save_welcome(wl, w)
    \/ \E pw \in ProcessedWelcomes, w \in TraitWrites : save_processed_welcome(pw, w)
    \/ \E v \in EngineValues : engine_set(<<0, 255>>, v)
    \/ \E k \in EngineKeys : engine_delete(k)

\* removals and updates are drawn for the keys that are stored
WalletNext ==
    \/ \E w \in WalletWrites : WalletNew(w)
    \/ \E i \in MintInfos, w \in WalletWrites : add_mint("https://m1", i, w)
    \/ \E u \in DOMAIN wallet.mints, w \in WalletWrites : remove_mint(u, w)
    \/ \E u \in DOMAIN wallet.mints, w \in WalletWrites : update_mint_url(u, "https://m2", w)
    \/ \E k \in {x \in KeySetInfos : x.active /\ x.id = "k1"}, w \in WalletWrites :
            add_mint_keysets("https://m1", <<k>>, w)
    \/ \E q \in {x \in MintQuotes : x.id = "q1" /\ x.state = "paid"}, w \in WalletWrites :
            add_mint_quote(q, w)
    \/ \E q \in DOMAIN wallet.mint_quotes, w \in WalletWrites : remove_mint_quote(q, w)
    \/ \E q \in {x \in MeltQuotes : x.id = "q1" /\ x.state = "paid"}, w \in WalletWrites :
            add_melt_quote(q, w)
    \/ \E q \in DOMAIN wallet.melt_quotes, w \in WalletWrites : remove_melt_quote(q, w)
    \/ \E k \in {x \in KeySets : x.id = "k1" /\ x.keys = "keysA"}, w \in WalletWrites :
            add_keys(k, w)
    \/ \E k \in DOMAIN wallet.keys, w \in WalletWrites : remove_keys(k, w)
    \/ \E p \in {x \in SomeProofs : x.y = "y1"}, w \in WalletWrites :
            update_proofs(<<p>>, {"y2"}, w)
    \/ \E p \in Range(wallet.proofs), w \in WalletWrites :
            update_proofs_state({p.y}, "Spent", w)
    \/ \E w \in WalletWrites : increment_keyset_counter("k1", U32(0, 5), w, FALSE)
    \/ \E t \in {x \in Transactions : x.direction = "Incoming" /\ x.ys = {"y1"}},
          w \in WalletWrites : add_transaction(t, w)
    \/ \E t \in Range(wallet.transactions), w \in WalletWrites :
            remove_transaction(TransactionId(t.ys), w)

Next == MdkLifecycle \/ MdkNext \/ WalletNext

\* every operation of both stores
Spec == Init /\ [][Next]_vars

\* the proof lists handed to update_proofs: up to two proofs, the same
\* identifier twice included
ProofLists ==
    {<<>>} \cup {<<p>> : p \in SomeProofs} \cup {<<p, q>> : p \in SomeProofs, q \in SomeProofs}

WalletLifecycle == (\E w \in WalletWrites : WalletNew(w)) \/ PageReload

ProofNext ==
    \/ \E added \in ProofLists, removed_ys \in SUBSET Ys, w \in WalletWrites :
            update_proofs(added, removed_ys, w)
    \/ \E ys \in {{"y1"}, {"y1", "y2"}}, w \in WalletWrites :
            update_proofs_state(ys, "Spent", w)

\* the proof list driven in depth
SpecProofs == InitTrait /\ [][WalletLifecycle \/ ProofNext]_vars

\* a wallet that holds proofs, with its snapshot in the medium
InitCalls ==
    /\ wallet \in {[WalletDefault EXCEPT !.proofs = l] :
                        l \in {l2 \in ProofLists : Len(l2) = 2 /\ l2[1].y # l2[2].y}}
    /\ walletUp = TRUE
    /\ medium = [mdk_state |-> NoBlob, openmls_storage |-> NoBlob,
                 wallet_state |-> wallet_state_blob(wallet)]
    /\ mdkUp = FALSE
    /\ mdk = MdkDefault
    /\ openmls = EmptyMap
    /\ last = [op |-> "wallet_new", arg |-> "ok", wfail |-> FALSE, res |-> "ok"]
    /\ budget = MaxTraitOps
    /\ hist = HistEmpty
    /\ durable = HistEmpty
    /\ lock = 0
    /\ pc = [c \in Callers |-> "idle"]
    /\ frame = [c \in Callers |-> NoFrame]
    /\ obs = [c \in Callers |-> NoObs]
    /\ ShareInit

CallNext ==
    \/ \E c \in Callers, p \in SomeProofs :
            update_proofs_lock(c, <<p>>, IF p.y = "y1" THEN {} ELSE {"y1"})
    \/ \E c \in Callers : update_proofs_retain(c)
    \/ \E c \in Callers : update_proofs_extend(c)
    \/ \E c \in Callers : get_proofs_clone(c)
    \/ \E c \in Callers : update_proofs_state_lock(c, {"y1"}, "Spent")
    \/ \E c \in Callers : update_proofs_state_loop(c)
    \/ \E c \in Callers : save_snapshot_clone(c)
    \/ \E c \in Callers, w \in WalletWrites : save_snapshot_write(c, w)

\* concurrent callers of the proof operations of one wallet store
SpecCalls == InitCalls /\ [][CallNext]_vars

\* the amounts handed to increment_keyset_counter: zero, small ones, u32::MAX
CounterAmounts == {U32(0, 0), U32(0, 3), U32(0, 5), U32(65535, 65535)}

CounterNext ==
    \E keyset_id \in KeysetIds, count \in CounterAmounts, w \in WalletWrites,
       overflow_checks \in BOOLEAN :
            increment_keyset_counter(keyset_id, count, w, overflow_checks)

\* the keyset counters driven in depth, in a build with and without overflow checks
SpecCounters == InitTrait /\ [][WalletLifecycle \/ CounterNext]_vars

\* the proofs a filter can tell apart: two mints, two units, two states, with
\* and without a spending condition
FilterProofs(y) ==
    [y : {y}, mint_url : MintUrls, unit : {"sat", "usd"}, state : {"Unspent", "Spent"},
     spending_condition : {None, Some("p2pk")}]
StoredProofLists ==
    {<<>>} \cup {<<p>> : p \in FilterProofs("y1")}
           \cup {<<p, q>> : p \in FilterProofs("y1"), q \in FilterProofs("y2")}

\* a wallet that holds a proof list, with its snapshot in the medium
InitGetProofs ==
    /\ wallet \in {[WalletDefault EXCEPT !.proofs = l] : l \in StoredProofLists}
    /\ walletUp = TRUE
    /\ medium = [mdk_state |-> NoBlob, openmls_storage |-> NoBlob,
                 wallet_state |-> wallet_state_blob(wallet)]
    /\ mdkUp = FALSE
    /\ mdk = MdkDefault
    /\ openmls = EmptyMap
    /\ last = [op |-> "wallet_new", arg |-> "ok", wfail |-> FALSE, res |-> "ok"]
    /\ budget = MaxTraitOps
    /\ hist = HistEmpty
    /\ durable = HistEmpty
    /\ lock = 0
    /\ pc = [c \in Callers |-> "idle"]
    /\ frame = [c \in Callers |-> NoFrame]
    /\ obs = [c \in Callers |-> NoObs]
    /\ ShareInit

GetProofsNext ==
    \E mint_url \in {None, Some("https://m1")}, unit \in {None, Some("sat")},
       state \in {None, Some({"Unspent"})},
       spending_conditions \in {None, Some({}), Some({"p2pk"})} :
            get_proofs_call(mint_url, unit, state, spending_conditions)

\* get_proofs over every stored list and every combination of filters
SpecGetProofs == InitGetProofs /\ [][WalletLifecycle \/ GetProofsNext]_vars

MintNext ==
    \/ \E u \in MintUrls, i \in MintInfos, w \in WalletWrites : add_mint(u, i, w)
    \/ \E u \in MintUrls, k \in {x \in KeySetInfos : x.active}, w \in WalletWrites :
            add_mint_keysets(u, <<k>>, w)
    \/ \E u \in MintUrls, w \in WalletWrites : remove_mint(u, w)
    \/ \E old \in MintUrls, new \in MintUrls, w \in WalletWrites : update_mint_url(old, new, w)

\* the mint registry and the keyset lists driven in depth
SpecMints == InitTrait /\ [][WalletLifecycle \/ MintNext]_vars

\* a constructed protocol store, empty, with its snapshot in the medium
InitMdkCalls ==
    /\ mdkUp = TRUE
    /\ mdk = MdkDefault
    /\ openmls = EmptyMap
    /\ medium = [mdk_state |-> mdk_state_blob(MdkDefault),
                 openmls_storage |-> openmls_blob(EmptyMap), wallet_state |-> NoBlob]
    /\ walletUp = FALSE
    /\ wallet = WalletDefault
    /\ last = [op |-> "mdk_new", arg |-> "ok", wfail |-> FALSE, res |-> "ok"]
    /\ budget = MaxOps
    /\ hist = HistEmpty
    /\ durable = HistEmpty
    /\ lock = 0
    /\ pc = [c \in Callers |-> "idle"]
    /\ frame = [c \in Callers |-> NoFrame]
    /\ obs = [c \in Callers |-> NoObs]
    /\ ShareInit

MdkCallNext ==
    \/ \E c \in Callers, m \in SomeMessages : save_message_mutate(c, m)
    \/ \E c \in Callers : save_mdk_state_lock(c)
    \/ \E c \in Callers, w \in {"ok", "fail_mdk"} : save_mdk_state_set_item(c, w)
    \/ \E c \in Callers, w \in {"ok", "fail_openmls"} : save_openmls_storage_write(c, w)

\* concurrent callers of save_message on one protocol state store
SpecMdkCalls == InitMdkCalls /\ [][MdkCallNext]_vars

\* a page just opened: nothing constructed, nothing cached; the medium is
\* empty or holds blobs that do not decode
InitHandles == Init /\ medium.mdk_state = NoBlob

\* the messages saved through a handle on instance n: instances constructed
\* one after the other are given different ones
HandleMessages(n) ==
    {m \in SomeMessages : m.id = [i \in 1..EventIdLen |-> IF n % 2 = 1 THEN 16 ELSE 175]}

HandleNext ==
    \/ \E c \in Callers : get_or_create_storage_lock(c)
    \/ \E c \in Callers : get_or_create_storage_check(c)
    \/ \E c \in Callers, w \in TraitWrites : get_or_create_storage_new(c, w)
    \/ \E c \in Callers : clear_storage_cache(c)
    \/ \E c \in Callers : get_or_create_wallet_db_lock(c)
    \/ \E c \in Callers : get_or_create_wallet_db_check(c)
    \/ \E c \in Callers, w \in WalletWrites : get_or_create_wallet_db_new(c, w)
    \/ \E c \in Callers : \E m \in HandleMessages(handle[c]) : handle_save_message(c, m, "ok")

\* concurrent callers of the store caches, and of the protocol store through
\* the handles they were given
SpecHandles == InitHandles /\ [][HandleNext]_vars

KeysNext ==
    \/ get_or_create_storage_lock(1)
    \/ get_or_create_storage_check(1)
    \/ \E w \in TraitWrites : get_or_create_storage_new(1, w)
    \/ \E m \in SomeMessages : handle_save_message(1, m, "ok")
    \/ get_or_create_wallet_db_lock(1)
    \/ get_or_create_wallet_db_check(1)
    \/ \E w \in WalletWrites : get_or_create_wallet_db_new(1, w)
    \/ \E u \in MintUrls, i \in MintInfos, w \in WalletWrites : add_mint(u, i, w)
    \/ \E secret_hex \in SecretKeys, w \in {"ok", "fail"} : generate_keys(secret_hex, w)
    \/ clear_keys

\* one caller of the cached stores, and the identity replaced or cleared
\* at any moment
SpecKeys == InitHandles /\ [][KeysNext]_vars

\* a protocol state with an entry in each of its nine indexes
FullState ==
    LET g == CHOOSE x \in SomeGroups : TRUE
        wl == CHOOSE x \in SomeWelcomes : TRUE
        pw == CHOOSE x \in ProcessedWelcomes : TRUE
        m == CHOOSE x \in SomeMessages : TRUE
        pm == CHOOSE x \in ProcessedMessages : TRUE
        x == CHOOSE x \in SomeSecrets : TRUE
        s1 == replace_group_relays_state(save_group_state(MdkDefault, g),
                                         g.mls_group_id, {"wss://r1"})
        s2 == save_processed_welcome_state(save_welcome_state(s1, wl), pw)
        s3 == save_processed_message_state(save_message_state(s2, m), pm)
    IN save_group_exporter_secret_state(s3, x)

\* the nine indexes by the encoding of their keys
HexIndexes == {"groups", "group_relays", "messages_by_group"}
IdIndexes ==
    {"groups_by_nostr_id", "welcomes", "processed_welcomes", "messages", "processed_messages"}
SecretIndexes == {"group_exporter_secrets"}

\* text keys that do not decode: odd length, a character that is no hex
\* digit, a 32-byte id that is too short, too long, odd or not hex, a
\* composite key with no or two separators, with a group id that is not hex,
\* with an epoch that is empty or no number
BadKeys(f) ==
    IF f \in HexIndexes THEN {<<"0", "1", "a">>, <<"z", "z">>}
    ELSE IF f \in IdIndexes
    THEN {<<"0", "1">>, hex_encode([i \in 1..(EventIdLen + 1) |-> 16]),
          Tail(hex_encode([i \in 1..EventIdLen |-> 16])),
          [i \in 1..(2 * EventIdLen) |-> "z"]}
    ELSE {<<"0", "1">>, <<"0", "1", ":", "1", ":", "2">>, <<"0", "1", ":", "x">>,
          <<"z", "z", ":", "1">>, <<"0", "1", ":">>, <<"0", ":", "1">>}

\* the documents in which one key of one index does not decode, next to the
\* valid entries of all nine indexes
BadDocs ==
    LET full == to_serializable(FullState) IN
    UNION {{[full EXCEPT ![f] = @ \cup {<<k, (CHOOSE kv \in full[f] : TRUE)[2]>>}] :
                k \in BadKeys(f)} : f \in HexIndexes \cup IdIndexes \cup SecretIndexes}

\* a page opened on a medium whose protocol-state blob is a valid document,
\* text that does not parse, or a document with one key that does not decode
InitDecode ==
    /\ medium \in {[mdk_state |-> b, openmls_storage |-> NoBlob, wallet_state |-> NoBlob] :
                    b \in {Garbage, JsonBlob(to_serializable(FullState))}
                          \cup {JsonBlob(d) : d \in BadDocs}}
    /\ mdkUp = FALSE
    /\ mdk = MdkDefault
    /\ openmls = EmptyMap
    /\ walletUp = FALSE
    /\ wallet = WalletDefault
    /\ last = [op |-> "init", arg |-> 0, wfail |-> FALSE, res |-> "ok"]
    /\ budget = MaxOps
    /\ hist = HistEmpty
    /\ durable = HistEmpty
    /\ lock = 0
    /\ pc = [c \in Callers |-> "idle"]
    /\ frame = [c \in Callers |-> NoFrame]
    /\ obs = [c \in Callers |-> NoObs]
    /\ ShareInit

DecodeNext ==
    \/ \E m \in SomeMessages, w \in TraitWrites : save_message(m, w)
    \/ \E x \in GroupExporterSecrets, w \in TraitWrites : save_group_exporter_secret(x, w)

\* construction of the protocol store from every such medium, and from what
\* the store has written itself
SpecDecode == InitDecode /\ [][MdkLifecycle \/ DecodeNext]_vars

\* the two versions of one group: the same two keys, another name
PairedGroups ==
    {g \in Groups : g.mls_group_id = <<1>> /\ g.nostr_group_id = [i \in 1..NostrIdLen |-> 1]}

GroupCallNext ==
    \/ \E c \in Callers, g \in PairedGroups : save_group_lock(c, g)
    \/ \E c \in Callers : save_group_insert_groups_by_nostr_id(c)
    \/ \E c \in Callers : save_group_insert_groups(c)
    \/ \E c \in Callers : save_mdk_state_lock(c)
    \/ \E c \in Callers : save_mdk_state_set_item(c, "ok")
    \/ \E c \in Callers : save_openmls_storage_write(c, "ok")
    \/ \E c \in Callers : find_group_by_mls_group_id_call(c, <<1>>)
    \/ \E c \in Callers : find_group_by_nostr_group_id_call(c, [i \in 1..NostrIdLen |-> 1])

\* concurrent callers of save_group and of the two lookups on one protocol
\* state store
SpecGroupCalls == InitMdkCalls /\ [][GroupCallNext]_vars

EngineNext ==
    \/ \E k \in EngineKeys, v \in EngineValues : engine_set(k, v)
    \/ \E k \in EngineKeys : engine_delete(k)
    \/ \E wl \in SomeWelcomes, w \in MdkWrites : save_welcome(wl, w)
    \/ \E secret_hex \in SecretKeys : generate_keys(secret_hex, "ok")
    \/ clear_keys

\* the engine's sub-store written with every snapshot and read by every
\* construction, with and without an mdk_state blob next to it
SpecEngine == InitTrait /\ [][MdkLifecycle \/ EngineNext]_vars

RelayNext ==
    \E g \in GroupIds, relays \in SUBSET RelayUrls, w \in TraitWrites :
        replace_group_relays(g, relays, w)

\* the relay sets of the groups driven in depth
SpecRelays == InitTrait /\ [][MdkLifecycle \/ RelayNext]_vars

SecretNext ==
    \E x \in GroupExporterSecrets, w \in TraitWrites : save_group_exporter_secret(x, w)

\* the exporter secrets driven in depth
SpecSecrets == InitTrait /\ [][MdkLifecycle \/ SecretNext]_vars

\* what the stores are given where the lookups are driven: one key of every
\* kind; the other key of every kind is never stored
LookupWrites ==
    \/ \E g \in {x \in PairedGroups : x.name = "a"} : save_group(g, "ok")
    \/ replace_group_relays(<<1>>, RelayUrls, "ok")
    \/ \E x \in {s \in GroupExporterSecrets : s.mls_group_id = <<1>> /\ s.epoch = 0} :
            save_group_exporter_secret(x, "ok")
    \/ \E m \in {x \in Messages : x.mls_group_id = <<1>> /\ x.id[1] = 16} : save_message(m, "ok")
    \/ \E pm \in {x \in ProcessedMessages : x.wrapper_event_id[1] = 16} :
            save_processed_message(pm, "ok")
    \/ \E wl \in {x \in SomeWelcomes : x.id[1] = 16} : save_welcome(wl, "ok")
    \/ \E pw \in {x \in ProcessedWelcomes : x.wrapper_event_id[1] = 16} :
            save_processed_welcome(pw, "ok")
    \/ add_mint("https://m1", Some("info"), "ok")
    \/ \E k \in {x \in KeySetInfos : x.active /\ x.id = "k1"} :
            add_mint_keysets("https://m1", <<k>>, "ok")
    \/ \E q \in {x \in MintQuotes : x.id = "q1" /\ x.state = "paid"} : add_mint_quote(q, "ok")
    \/ \E q \in {x \in MeltQuotes : x.id = "q1" /\ x.state = "paid"} : add_melt_quote(q, "ok")
    \/ \E k \in {x \in KeySets : x.id = "k1" /\ x.keys = "keysA"} : add_keys(k, "ok")
    \/ \E t \in {x \in Transactions : x.direction = "Incoming" /\ x.ys = {"y1"}} :
            add_transaction(t, "ok")

\* every lookup of both stores, for the stored and for the other key
LookupReads ==
    \/ \E g \in GroupIds :
            MdkRead("find_group_by_mls_group_id", g, Ok(find_group_by_mls_group_id(mdk, g)))
    \/ \E n \in NostrIds :
            MdkRead("find_group_by_nostr_group_id", n, Ok(find_group_by_nostr_group_id(mdk, n)))
    \/ \E g \in GroupIds : MdkRead("messages", g, Ok(messages(mdk, g)))
    \/ \E g \in GroupIds : MdkRead("admins", g, admins(mdk, g))
    \/ \E g \in GroupIds : MdkRead("group_relays", g, Ok(group_relays(mdk, g)))
    \/ \E g \in GroupIds, e \in Epochs :
            MdkRead("get_group_exporter_secret", <<g, e>>, Ok(get_group_exporter_secret(mdk, g, e)))
    \/ \E i \in EventIds :
            MdkRead("find_message_by_event_id", i, Ok(find_message_by_event_id(mdk, i)))
    \/ \E i \in EventIds :
            MdkRead("find_processed_message_by_event_id", i,
                    Ok(find_processed_message_by_event_id(mdk, i)))
    \/ \E i \in EventIds :
            MdkRead("find_welcome_by_event_id", i, Ok(find_welcome_by_event_id(mdk, i)))
    \/ \E i \in EventIds :
            MdkRead("find_processed_welcome_by_event_id", i,
                    Ok(find_processed_welcome_by_event_id(mdk, i)))
    \/ \E u \in MintUrls : WalletRead("get_mint", u, Ok(get_mint(wallet, u)))
    \/ \E u \in MintUrls : WalletRead("get_mint_keysets", u, Ok(get_mint_keysets(wallet, u)))
    \/ \E k \in KeysetIds : WalletRead("get_keyset_by_id", k, Ok(get_keyset_by_id(wallet, k)))
    \/ \E q \in QuoteIds : WalletRead("get_mint_quote", q, Ok(get_mint_quote(wallet, q)))
    \/ \E q \in QuoteIds : WalletRead("get_melt_quote", q, Ok(get_melt_quote(wallet, q)))
    \/ \E k \in KeysetIds : WalletRead("get_keys", k, Ok(get_keys(wallet, k)))
    \/ \E ys \in {{"y1"}, {"y1", "y2"}} :
            WalletRead("get_transaction", TransactionId(ys),
                       Ok(get_transaction(wallet, TransactionId(ys))))

\* both stores written and looked up, after construction and after a reload
SpecLookups ==
    InitHandles /\ [][MdkNew("ok") \/ WalletNew("ok") \/ PageReload
                      \/ LookupWrites \/ LookupReads]_vars

\* the transactions of the log driven in depth: two of the same proofs, one
\* received and one sent, one of another mint, one of another unit
LogTransactions ==
    {[ys |-> {"y1"}, mint_url |-> "https://m1", direction |-> "Incoming", unit |-> "sat"],
     [ys |-> {"y1"}, mint_url |-> "https://m1", direction |-> "Outgoing", unit |-> "sat"],
     [ys |-> {"y1", "y2"}, mint_url |-> "https://m2", direction |-> "Incoming", unit |-> "sat"],
     [ys |-> {"y2"}, mint_url |-> "https://m1", direction |-> "Outgoing", unit |-> "usd"]}
LogIds == {TransactionId(t.ys) : t \in LogTransactions}

TransactionNext ==
    \/ \E t \in LogTransactions, w \in WalletWrites : add_transaction(t, w)
    \/ \E i \in LogIds : remove_transaction(i, "ok")
    \/ \E mint_url \in {None, Some("https://m1")}, direction \in {None, Some("Incoming")},
          unit \in {None, Some("sat")} : list_transactions_call(mint_url, direction, unit)

\* the transaction log driven in depth
SpecTransactions == InitTrait /\ [][WalletLifecycle \/ TransactionNext]_vars

\* the keyset lists handed to add_mint_keysets: none, one, two keysets
KeysetLists ==
    {<<>>} \cup {<<k>> : k \in KeySetInfos}
           \cup {<<k, j>> : k \in {x \in KeySetInfos : x.id = "k1" /\ x.active},
                            j \in {x \in KeySetInfos : x.id = "k2"}}

KeysetNext ==
    \E u \in MintUrls, keysets \in KeysetLists, w \in WalletWrites :
        add_mint_keysets(u, keysets, w)

\* the keyset lists of the mints and the flat index, under add_mint_keysets only
SpecKeysets == InitTrait /\ [][WalletLifecycle \/ KeysetNext]_vars

\* the group the callers of SpecLocks save
LockGroup == CHOOSE g \in PairedGroups : TRUE

LockNext ==
    \/ \E c \in Callers : save_group_lock(c, LockGroup)
    \/ \E c \in Callers : save_group_insert_groups_by_nostr_id(c)
    \/ \E c \in Callers : save_group_insert_groups(c)
    \/ \E c \in Callers : save_mdk_state_lock(c)
    \/ \E c \in Callers : save_mdk_state_set_item(c, "ok")
    \/ \E c \in Callers : save_openmls_storage_write(c, "ok")
    \/ \E c \in Callers : get_or_create_storage_lock(c)
    \/ \E c \in Callers : get_or_create_storage_check(c)
    \/ \E c \in Callers : get_or_create_storage_new(c, "ok")

\* the steps of a caller inside an operation that wait for nothing
RunsOn(c) ==
    \/ save_group_insert_groups_by_nostr_id(c)
    \/ save_group_insert_groups(c)
    \/ save_mdk_state_set_item(c, "ok")
    \/ save_openmls_storage_write(c, "ok")
    \/ get_or_create_storage_check(c)
    \/ get_or_create_storage_new(c, "ok")

\* a caller that entered an operation keeps being run, and a caller waiting
\* for the store's lock is given it when it is free again and again
FairLocks ==
    \A c \in Callers : WF_vars(RunsOn(c)) /\ SF_vars(save_mdk_state_lock(c))

\* concurrent callers of save_group and of get_or_create_storage under a
\* fair scheduler
SpecLocks == InitMdkCalls /\ [][LockNext]_vars /\ FairLocks

SubstoreNext ==
    \/ \E k \in EngineKeys, v \in EngineValues : engine_set(k, v)
    \/ \E k \in EngineKeys : engine_delete(k)
    \/ \E wl \in SomeWelcomes, w \in MdkWrites : save_welcome(wl, w)
    \/ \E w0 \in MdkWrites, w \in MdkWrites : save_storage(w0, w)

\* the engine writing to its sub-store between the snapshots of the protocol
\* store and of save_storage
SpecSubstore == InitTrait /\ [][MdkLifecycle \/ SubstoreNext]_vars

SnapshotOrderNext ==
    \/ \E k \in EngineKeys, v \in EngineValues : engine_set(k, v)
    \/ \E c \in Callers, m \in SomeMessages : save_message_mutate(c, m)
    \/ \E c \in Callers : save_mdk_state_lock(c)
    \/ \E c \in Callers, w \in TraitWrites : save_mdk_state_set_item(c, w)
    \/ \E c \in Callers, w \in {"ok", "fail_openmls"} : save_openmls_storage_write(c, w)

\* the two writes of a snapshot as separate steps, with the engine writing to
\* its sub-store in between
SpecSnapshotOrder == InitMdkCalls /\ [][SnapshotOrderNext]_vars

\* a medium whose mdk_state and wallet_state do not decode
UndecodableMedia ==
    {[mdk_state |-> b, openmls_storage |-> NoBlob, wallet_state |-> Garbage] :
        b \in {Garbage, JsonBlob(BadKeyDoc)}}

\* a page opened on an empty medium or on one that does not decode
InitConstruct ==
    /\ medium \in UndecodableMedia
            \cup {[mdk_state |-> NoBlob, openmls_storage |-> NoBlob, wallet_state |-> NoBlob]}
    /\ mdkUp = FALSE
    /\ mdk = MdkDefault
    /\ openmls = EmptyMap
    /\ walletUp = FALSE
    /\ wallet = WalletDefault
    /\ last = [op |-> "init", arg |-> 0, wfail |-> FALSE, res |-> "ok"]
    /\ budget = MaxOps
    /\ hist = HistEmpty
    /\ durable = HistEmpty
    /\ lock = 0
    /\ pc = [c \in Callers |-> "idle"]
    /\ frame = [c \in Callers |-> NoFrame]
    /\ obs = [c \in Callers |-> NoObs]
    /\ ShareInit

ConstructNext ==
    \/ \E w \in MdkWrites : MdkNew(w)
    \/ \E w \in WalletWrites : WalletNew(w)
    \/ PageReload
    \/ \E k \in EngineKeys, v \in EngineValues : engine_set(k, v)
    \/ \E wl \in SomeWelcomes : save_welcome(wl, "ok")
    \/ \E u \in MintUrls, i \in MintInfos : add_mint(u, i, "ok")

\* the two constructors on media that are empty, do not decode, or hold what
\* an earlier session wrote
SpecConstruct == InitConstruct /\ [][ConstructNext]_vars

\* what refers to the mint https://m1 in every part of the wallet state
RemoveMintNext ==
    \/ \E u \in MintUrls, w \in WalletWrites : remove_mint(u, w)
    \/ add_mint("https://m1", Some("info"), "ok")
    \/ add_mint_keysets("https://m1", <<[id |-> "k1", active |-> TRUE]>>, "ok")
    \/ add_keys([id |-> "k1", keys |-> "keysA"], "ok")
    \/ add_mint_quote([id |-> "q1", state |-> "unpaid"], "ok")
    \/ add_melt_quote([id |-> "q2", state |-> "paid"], "ok")
    \/ \E p \in {x \in SomeProofs : x.y = "y1"} : update_proofs(<<p>>, {}, "ok")
    \/ increment_keyset_counter("k1", U32(0, 3), "ok", FALSE)
    \/ \E t \in {x \in Transactions : x.ys = {"y1"} /\ x.direction = "Incoming"} :
            add_transaction(t, "ok")

\* remove_mint on wallets that hold keysets, keys, quotes, proofs, counters
\* and transactions of the mint
SpecRemoveMint == InitTrait /\ [][WalletLifecycle \/ RemoveMintNext]_vars

\* the listings and filters of the two stores
ListingReads ==
    \/ MdkRead("all_groups", 0, Ok(all_groups(mdk)))
    \/ MdkRead("pending_welcomes", 0, Ok(pending_welcomes(mdk)))
    \/ WalletRead("get_mints", 0, Ok(get_mints(wallet)))
    \/ WalletRead("get_mint_quotes", 0, Ok(get_mint_quotes(wallet)))
    \/ WalletRead("get_melt_quotes", 0, Ok(get_melt_quotes(wallet)))
    \/ \E unit \in {None, Some("sat")}, state \in {None, Some({"Unspent"})} :
            get_proofs_call(Some("https://m1"), unit, state, None)
    \/ \E direction \in {None, Some("Incoming")} :
            list_transactions_call(Some("https://m1"), direction, None)

\* the lookups of the two stores, each under one key
PointReads ==
    LET g == <<1>>
        n == [i \in 1..NostrIdLen |-> 1]
        e == [i \in 1..EventIdLen |-> 16]
    IN \/ MdkRead("find_group_by_mls_group_id", g, Ok(find_group_by_mls_group_id(mdk, g)))
       \/ MdkRead("find_group_by_nostr_group_id", n, Ok(find_group_by_nostr_group_id(mdk, n)))
       \/ MdkRead("messages", g, Ok(messages(mdk, g)))
       \/ MdkRead("admins", g, admins(mdk, g))
       \/ MdkRead("group_relays", g, Ok(group_relays(mdk, g)))
       \/ MdkRead("get_group_exporter_secret", <<g, 0>>, Ok(get_group_exporter_secret(mdk, g, 0)))
       \/ MdkRead("find_message_by_event_id", e, Ok(find_message_by_event_id(mdk, e)))
       \/ MdkRead("find_processed_message_by_event_id", e,
                  Ok(find_processed_message_by_event_id(mdk, e)))
       \/ MdkRead("find_welcome_by_event_id", e, Ok(find_welcome_by_event_id(mdk, e)))
       \/ MdkRead("find_processed_welcome_by_event_id", e,
                  Ok(find_processed_welcome_by_event_id(mdk, e)))
       \/ WalletRead("get_mint", "https://m1", Ok(get_mint(wallet, "https://m1")))
       \/ WalletRead("get_mint_keysets", "https://m1", Ok(get_mint_keysets(wallet, "https://m1")))
       \/ WalletRead("get_keyset_by_id", "k1", Ok(get_keyset_by_id(wallet, "k1")))
       \/ WalletRead("get_mint_quote", "q1", Ok(get_mint_quote(wallet, "q1")))
       \/ WalletRead("get_melt_quote", "q1", Ok(get_melt_quote(wallet, "q1")))
       \/ WalletRead("get_keys", "k1", Ok(get_keys(wallet, "k1")))
       \/ WalletRead("get_transaction", TransactionId({"y1"}),
                     Ok(get_transaction(wallet, TransactionId({"y1"}))))

\* writes that give the reads something to return, one of them with a
\* snapshot write that fails
ReadWrites ==
    \/ \E g \in {x \in PairedGroups : x.name = "a"} : save_group(g, "ok")
    \/ \E m \in {x \in Messages : x.mls_group_id = <<1>> /\ x.id[1] = 16 /\ x.content = "x"} :
            save_message(m, "ok")
    \/ \E wl \in {x \in SomeWelcomes : x.id[1] = 16}, w \in TraitWrites : save_welcome(wl, w)
    \/ add_mint("https://m1", Some("info"), "ok")
    \/ \E q \in {x \in MintQuotes : x.id = "q1" /\ x.state = "paid"} : add_mint_quote(q, "ok")
    \/ \E p \in {x \in SomeProofs : x.y = "y1"} : update_proofs(<<p>>, {}, "ok")
    \/ \E t \in {x \in Transactions : x.direction = "Incoming" /\ x.ys = {"y1"}} :
            add_transaction(t, "ok")

ReadNext ==
    \/ MdkNew("ok") \/ WalletNew("ok")
    \/ ReadWrites
    \/ PointReads
    \/ ListingReads

\* every read of the two stores, on stores that hold something of every
\* kind, also where the last snapshot write failed
SpecReads == InitHandles /\ [][ReadNext]_vars

(***************************************************************************)
(* Properties.                                                             *)
(***************************************************************************)
\* C1: dual-index consistency.  Every group of all_groups is returned by
\* find_group_by_mls_group_id and by find_group_by_nostr_group_id under its own
\* ids, and every group found through the 32-byte index is found through the
\* protocol-id index as the same group.
C1_DualIndexConsistency ==
    mdkUp =>
        /\ \A g \in all_groups(mdk) :
                /\ find_group_by_mls_group_id(mdk, g.mls_group_id) = Some(g)
                /\ find_group_by_nostr_group_id(mdk, g.nostr_group_id) = Some(g)
        /\ \A n \in DOMAIN mdk.groups_by_nostr_id :
                LET g == mdk.groups_by_nostr_id[n] IN
                find_group_by_mls_group_id(mdk, g.mls_group_id) = Some(g)

\* C2: messages(g) is exactly the messages saved with group id g, in the
\* order of the save_message calls, also in a store constructed from the
\* medium after the saves (hist is then the history of the loaded snapshot).
C2_MessagesInSavedOrder ==
    mdkUp =>
        \A g \in GroupIds :
            messages(mdk, g) = SelectSeq(hist.msgs, LAMBDA m : m.mls_group_id = g)

\* three messages saved to one group, then a store constructed from the medium
C2_Witness ==
    /\ mdkUp /\ last.op = "mdk_new"
    /\ \E g \in GroupIds :
            /\ Len(messages(mdk, g)) = 3
            /\ messages(mdk, g)[1] # messages(mdk, g)[2]
            /\ messages(mdk, g)[2] # messages(mdk, g)[3]

\* the number of places a message with event id e takes in the per-group lists
Occurrences(st, e) ==
    Cardinality(UNION {{<<g, i>> : i \in {j \in 1..Len(st.messages_by_group[g]) :
                                                st.messages_by_group[g][j].id = e}} :
                       g \in DOMAIN st.messages_by_group})

\* C3: every message of the event-id index is in exactly one per-group list,
\* exactly once, and find_message_by_event_id returns it.
C3_MessageInOneListOnce ==
    mdkUp =>
        \A e \in DOMAIN mdk.messages :
            /\ Occurrences(mdk, e) = 1
            /\ find_message_by_event_id(mdk, e) = Some(mdk.messages[e])

\* C4: pending_welcomes is exactly the saved welcomes (the last one saved
\* under each id) whose id no ProcessedWelcome marker was saved under.
C4_PendingWelcomes ==
    mdkUp =>
        pending_welcomes(mdk) =
            {hist.welcomes[i] : i \in DOMAIN hist.welcomes \ hist.marked}

\* one welcome has got its marker and is gone, another is still pending
C4_Witness ==
    /\ mdkUp
    /\ \E i \in DOMAIN mdk.welcomes : i \in hist.marked /\ mdk.welcomes[i] \notin pending_welcomes(mdk)
    /\ pending_welcomes(mdk) # {}

\* C5: round trip.  In every reachable state, writing a snapshot and loading
\* the written blobs gives the in-memory state back, index for index, for the
\* protocol state and for the wallet state.
C5_RoundTrip ==
    /\ mdkUp =>
            load_mdk_state(save_snapshot_medium(medium, mdk, openmls, "ok")) = Ok(mdk)
    /\ walletUp =>
            load_from_indexeddb(wallet_snapshot_medium(medium, wallet, "ok")) = Ok(wallet)

\* an exporter secret under its composite key and a proof are in the stores
C5_Witness ==
    /\ mdkUp /\ walletUp
    /\ mdk.group_exporter_secrets # EmptyMap
    /\ wallet.proofs # <<>>

\* the blob of a store holds content that does not decode
CorruptMdkState(med) == med.mdk_state.kind # "none" /\ ~load_mdk_state(med).ok
CorruptOpenmls(med) == ~load_openmls_storage(med).ok
CorruptWallet(med) == med.wallet_state.kind # "none" /\ ~load_from_indexeddb(med).ok

\* C6: corrupt-medium resilience.  A construction against a medium whose blob
\* for the store does not decode, with no write failing, returns no error and
\* gives an empty store.
C6_CorruptMediumResilience ==
    [][/\ (last'.op = "mdk_new" /\ ~last'.wfail /\ CorruptMdkState(medium))
            => (last'.res = "ok" /\ mdkUp' /\ mdk' = MdkDefault)
       /\ (last'.op = "mdk_new" /\ ~last'.wfail /\ CorruptOpenmls(medium))
            => (last'.res = "ok" /\ mdkUp' /\ openmls' = EmptyMap)
       /\ (last'.op = "wallet_new" /\ ~last'.wfail /\ CorruptWallet(medium))
            => (last'.res = "ok" /\ walletUp' /\ wallet' = WalletDefault)]_vars

MdkOpNames ==
    {"save_group", "replace_group_relays", "save_group_exporter_secret", "save_message",
     "save_processed_message", "save_welcome", "save_processed_welcome"}
WalletOpNames ==
    {"add_mint", "remove_mint", "update_mint_url", "add_mint_keysets", "add_mint_quote",
     "remove_mint_quote", "add_melt_quote", "remove_melt_quote", "add_keys", "remove_keys",
     "update_proofs", "update_proofs_state", "increment_keyset_counter", "add_transaction",
     "remove_transaction"}

\* what the reads of the protocol state store return after the call op(a)
MdkReadsObserve(st, op, a) ==
    CASE op = "save_group" ->
            /\ a \in all_groups(st)
            /\ find_group_by_mls_group_id(st, a.mls_group_id) = Some(a)
            /\ find_group_by_nostr_group_id(st, a.nostr_group_id) = Some(a)
      [] op = "replace_group_relays" ->
            {r.relay_url : r \in group_relays(st, a[1])} = a[2]
      [] op = "save_group_exporter_secret" ->
            get_group_exporter_secret(st, a.mls_group_id, a.epoch) = Some(a)
      [] op = "save_message" ->
            /\ find_message_by_event_id(st, a.id) = Some(a)
            /\ messages(st, a.mls_group_id) # <<>>
            /\ messages(st, a.mls_group_id)[Len(messages(st, a.mls_group_id))] = a
      [] op = "save_processed_message" ->
            find_processed_message_by_event_id(st, a.wrapper_event_id) = Some(a)
      [] op = "save_welcome" -> find_welcome_by_event_id(st, a.id) = Some(a)
      [] op = "save_processed_welcome" ->
            find_processed_welcome_by_event_id(st, a.wrapper_event_id) = Some(a)
      [] OTHER -> FALSE

\* what the reads of the wallet store return after the call op(a)
WalletReadsObserve(st, op, a) ==
    CASE op = "add_mint" -> a[1] \in DOMAIN get_mints(st) /\ get_mint(st, a[1]) = a[2]
      [] op = "remove_mint" -> a \notin DOMAIN get_mints(st)
      [] op = "update_mint_url" -> a[1] # a[2] => a[1] \notin DOMAIN get_mints(st)
      [] op = "add_mint_keysets" ->
            /\ get_mint_keysets(st, a[1]) = Some(a[2])
            /\ get_keyset_by_id(st, a[2][Len(a[2])].id) = Some(a[2][Len(a[2])])
      [] op = "add_mint_quote" -> get_mint_quote(st, a.id) = Some(a)
      [] op = "remove_mint_quote" -> get_mint_quote(st, a) = None
      [] op = "add_melt_quote" -> get_melt_quote(st, a.id) = Some(a)
      [] op = "remove_melt_quote" -> get_melt_quote(st, a) = None
      [] op = "add_keys" -> get_keys(st, a.id) = Some(a.keys)
      [] op = "remove_keys" -> get_keys(st, a) = None
      [] op = "update_proofs" ->
            LET got == get_proofs(st, None, None, None, None)
                n == Len(got) - Len(a[1])
            IN /\ n >= 0
               /\ SubSeq(got, n + 1, Len(got)) = a[1]
               /\ \A i \in 1..n : got[i].y \notin a[2]
      [] op = "update_proofs_state" ->
            \A p \in Range(get_proofs(st, None, None, None, None)) :
                p.y \in a[1] => p.state = a[2]
      [] op = "increment_keyset_counter" ->
            a[1] \in DOMAIN st.keyset_counters
      [] op = "add_transaction" ->
            LET got == list_transactions(st, None, None, None)
            IN /\ got # <<>> /\ got[Len(got)] = a
               /\ get_transaction(st, TransactionId(a.ys)) # None
      [] op = "remove_transaction" -> get_transaction(st, a) = None
      [] OTHER -> FALSE

\* C7: when the write to the medium fails during a mutating operation, the
\* operation returns an error, the store instance is still there, and the
\* reads on it return the mutation.
C7_WriteFailureKeepsMutation ==
    /\ (last.wfail /\ last.op \in MdkOpNames) =>
            /\ last.res = "err"
            /\ mdkUp
            /\ MdkReadsObserve(mdk, last.op, last.arg)
    /\ (last.wfail /\ last.op \in WalletOpNames) =>
            /\ last.res = "err"
            /\ walletUp
            /\ WalletReadsObserve(wallet, last.op, last.arg)

\* save_group and update_proofs have failed to write: the group and the proofs
\* are read from memory and are not in the medium
C7_Witness ==
    \/ /\ last.wfail /\ last.op = "save_group"
       /\ all_groups(mdk) # {}
       /\ load_mdk_state(medium).ok
       /\ all_groups(load_mdk_state(medium).val) = {}
    \/ /\ last.wfail /\ last.op = "update_proofs"
       /\ wallet.proofs # <<>>
       /\ load_from_indexeddb(medium).ok
       /\ load_from_indexeddb(medium).val.proofs = <<>>

\* C8: when a mutating operation has returned success, the blobs of its
\* store in the medium decode to the store's in-memory state.
C8_SnapshotAfterMutation ==
    /\ (last.res = "ok" /\ last.op \in MdkOpNames) =>
            /\ load_mdk_state(medium) = Ok(mdk)
            /\ load_openmls_storage(medium) = Ok(openmls)
    /\ (last.res = "ok" /\ last.op \in WalletOpNames) =>
            load_from_indexeddb(medium) = Ok(wallet)

\* an exporter secret saved after the engine wrote to its sub-store, and a
\* wallet mutation, both returned success
C8_Witness ==
    \/ /\ last.res = "ok" /\ last.op = "save_group_exporter_secret"
       /\ mdk.group_exporter_secrets # EmptyMap
       /\ openmls # EmptyMap
    \/ /\ last.res = "ok" /\ last.op = "update_proofs"
       /\ wallet.proofs # <<>>

\* the identifiers of the proofs of a list are pairwise different
DistinctYs(proofs) ==
    \A i, j \in 1..Len(proofs) : proofs[i].y = proofs[j].y => i = j

\* C9: after update_proofs(added, removed_ys), get_proofs with no filters holds
\* exactly the previous proofs whose identifier is not in removed_ys and the
\* added proofs, and no two of its proofs share an identifier.
C9_UpdateProofsExact ==
    [][last'.op = "update_proofs" =>
            LET before == get_proofs(wallet, None, None, None, None)
                after == get_proofs(wallet', None, None, None, None)
                added == last'.arg[1]
                removed_ys == last'.arg[2]
            IN /\ Range(after) = {p \in Range(before) : p.y \notin removed_ys} \cup Range(added)
               /\ DistinctYs(after)]_vars

\* C10: update_proofs is one step for concurrent readers.  No get_proofs and
\* no update_proofs_state reads the proof list from which an update_proofs
\* call has removed its proofs and to which it has not yet added its new ones.
C10_UpdateProofsAtomic ==
    \A c \in Callers : obs[c].some => ~obs[c].torn

\* a caller has read the list while another caller's update_proofs, which
\* removes a proof and adds one, is still running: it read the list after both
C10_Witness ==
    \E c \in Callers, u \in Callers :
        /\ c # u
        /\ obs[c].some
        /\ pc[u] \in {"snapshot", "write"}
        /\ frame[u].op = "update_proofs"
        /\ frame[u].added # <<>>
        /\ proofs_retain(frame[u].before, frame[u].ys) # frame[u].before
        /\ obs[c].list = proofs_extend(proofs_retain(frame[u].before, frame[u].ys),
                                       frame[u].added)

\* the counter of keyset id k before a call, an id never used counting as 0
PriorCount(k) ==
    IF k \in DOMAIN wallet.keyset_counters THEN wallet.keyset_counters[k] ELSE U32(0, 0)
\* r is the sum of a and b as natural numbers, all three 32-bit
IsSum(a, b, r) ==
    \E carry \in {0, 1} : a.lo + b.lo = r.lo + 65536 * carry /\ a.hi + b.hi + carry = r.hi
\* a < b as natural numbers
Less(a, b) == a.hi < b.hi \/ (a.hi = b.hi /\ a.lo < b.lo)
\* some 32-bit value is the sum of a and b
SumInRange(a, b) ==
    \E carry \in {0, 1} :
        /\ (carry = 1) <=> (a.lo + b.lo >= 65536)
        /\ a.hi + b.hi + carry <= 65535

C14_CounterMonotonic ==
    [][(last'.op = "increment_keyset_counter" /\ last'.res = "ok"
            /\ last'.arg[2] # U32(0, 0))
        => /\ last'.ret.some
           /\ Less(PriorCount(last'.arg[1]), last'.ret.val)
           /\ IsSum(PriorCount(last'.arg[1]), last'.arg[2], last'.ret.val)]_vars

\* C15: when a spending-condition filter is supplied to get_proofs, no proof
\* without a spending condition is returned.
C15_NoConditionNeverMatchesFilter ==
    [][(last'.op = "get_proofs" /\ last'.arg.spending_conditions.some)
        => \A i \in 1..Len(last'.ret) : last'.ret[i].spending_condition.some]_vars

\* proof p satisfies the supplied mint, unit and state filters of f
PassesFilters(p, f) ==
    /\ f.mint_url.some => p.mint_url = f.mint_url.val
    /\ f.unit.some => p.unit = f.unit.val
    /\ f.state.some => p.state \in f.state.val
\* the elements of list l at the positions of K, in the order of l
AtPositions(l, K) ==
    [j \in 1..Cardinality(K) |->
        l[CHOOSE i \in K : Cardinality({k \in K : k < i}) = j - 1]]

C17_UpdateProofsStateFrame ==
    [][last'.op = "update_proofs_state"
        => LET ids == last'.arg[1]
               s == last'.arg[2]
           IN /\ Len(wallet'.proofs) = Len(wallet.proofs)
              /\ \A i \in 1..Len(wallet.proofs) :
                    /\ wallet.proofs[i].y \in ids
                        => wallet'.proofs[i] = [wallet.proofs[i] EXCEPT !.state = s]
                    /\ wallet.proofs[i].y \notin ids
                        => wallet'.proofs[i] = wallet.proofs[i]
              /\ [wallet' EXCEPT !.proofs = <<>>] = [wallet EXCEPT !.proofs = <<>>]
              /\ (\A i \in 1..Len(wallet.proofs) : wallet.proofs[i].y \notin ids)
                    => wallet' = wallet /\ (last'.wfail \/ last'.res = "ok")]_vars
\* of two stored proofs the one named by the call was set to Spent, the other
\* one, stored before it, was left alone
C17_Witness ==
    /\ last.op = "update_proofs_state"
    /\ last.res = "ok"
    /\ last.arg[1] = {"y1"}
    /\ Len(wallet.proofs) = 2
    /\ wallet.proofs[1].y = "y2" /\ wallet.proofs[1].state = "Unspent"
    /\ wallet.proofs[2].y = "y1" /\ wallet.proofs[2].state = "Spent"

\* C18: after update_mint_url(old, new) with old # new, the mint-registry entry
\* that was stored under old is found under new and no longer under old
\* (get_mint, get_mints), and the keyset list that was stored under old is
\* found under new and no longer under old (get_mint_keysets).
C18_UpdateMintUrlMovesBoth ==
    [][(last'.op = "update_mint_url" /\ last'.arg[1] # last'.arg[2])
        => LET old == last'.arg[1]
               new == last'.arg[2]
           IN /\ old \in DOMAIN get_mints(wallet)
                    => /\ new \in DOMAIN get_mints(wallet')
                       /\ get_mint(wallet', new) = get_mint(wallet, old)
                       /\ old \notin DOMAIN get_mints(wallet')
              /\ get_mint_keysets(wallet, old).some
                    => /\ get_mint_keysets(wallet', new) = get_mint_keysets(wallet, old)
                       /\ ~get_mint_keysets(wallet', old).some]_vars

IsPrefix(a, b) == Len(a) <= Len(b) /\ a = SubSeq(b, 1, Len(a))

\* C12: in the protocol state store under interleaved callers, every write of
\* mdk_state writes the in-memory state as it is at the write, the blob never
\* goes back (each group's message list in the blob is extended, never cut or
\* replaced), and when every caller has returned, none with an error, mdk_state
\* decodes to the final in-memory state.
C12_MdkSnapshotNeverOlder ==
    /\ [][medium'.mdk_state # medium.mdk_state
            => /\ load_mdk_state(medium') = Ok(mdk')
               /\ \A g \in GroupIds :
                    IsPrefix(messages(load_mdk_state(medium).val, g),
                             messages(load_mdk_state(medium').val, g))]_vars
    /\ []((\A c \in Callers : pc[c] = "idle" /\ (obs[c].some => obs[c].res = "ok"))
            => load_mdk_state(medium) = Ok(mdk))
\* both callers have mutated and released the Mutex; one holds it again in
\* save_mdk_state with its blob serialised and not yet written, the other
\* waits for it to take its own snapshot
C12_Witness ==
    \E c \in Callers, u \in Callers :
        /\ pc[c] = "set_item"
        /\ mdkLock = c
        /\ pc[u] = "save_mdk_state"
        /\ Len(hist.msgs) = 2
        /\ medium.mdk_state = mdk_state_blob(MdkDefault)

\* C19: since the protocol store cache was last emptied at most one protocol
\* store has been constructed and every handle returned refers to that one
\* instance, the cached one; at most one wallet store has been constructed in
\* the page session.  A construction that returned an error constructed
\* nothing.
C19_ConstructOnce ==
    /\ built.storage <= 1
    /\ built.wallet <= 1
    /\ Cardinality(built.returned) <= 1
    /\ cache # 0 => built.returned = {cache}
    /\ cache = 0 => built.returned = {} /\ built.storage = 0
\* two callers hold handles on the one protocol store constructed, and the
\* one wallet store is constructed
C19_Witness ==
    /\ \A c \in Callers : handle[c] = cache
    /\ cache # 0
    /\ built.storage = 1
    /\ built.wallet = 1
    /\ walletUp

\* C20: all handles on the protocol store that are live at the same time refer
\* to one in-memory state, and after a successful mutating call through one
\* handle the mdk_state blob decodes to the state behind every live handle.
C20_LiveHandlesShareState ==
    [][/\ \A c \in Callers, u \in Callers :
            (handle'[c] # 0 /\ handle'[u] # 0) => handle'[c] = handle'[u]
       /\ (last'.op = "save_message" /\ last'.res = "ok" /\ budget' # budget)
            => \A c \in Callers :
                    handle'[c] # 0
                        => load_mdk_state(medium') = Ok(inst'[handle'[c]].state)]_vars

\* the state of the store get_or_create_storage hands out now: the cached
\* instance, or one constructed from the medium
ObtainedState ==
    IF cache # 0 THEN inst[cache].state
    ELSE LET loaded == load_mdk_state(medium)
         IN IF loaded.ok THEN loaded.val ELSE MdkDefault

\* C21: after generate_keys or clear_keys has returned, the store obtained
\* from get_or_create_storage returns no group, message or welcome saved
\* before the call, and the next save through a handle does not write an
\* earlier message back into mdk_state
C21_KeysClearMdkState ==
    /\ [](last.op \in {"generate_keys", "clear_keys"} /\ last.res = "ok"
            => /\ ObtainedState.groups = EmptyMap
               /\ ObtainedState.messages = EmptyMap
               /\ ObtainedState.welcomes = EmptyMap)
    /\ [][last.op \in {"generate_keys", "clear_keys"} /\ last.res = "ok"
          /\ last'.op = "save_message" /\ load_mdk_state(medium').ok
            => DOMAIN load_mdk_state(medium').val.messages = {last'.arg.id}]_vars

\* C22: generate_keys and clear_keys leave the wallet_state blob and the
\* cached wallet store's in-memory state as they were
C22_KeysKeepWallet ==
    [][(\/ \E secret_hex \in SecretKeys, w \in {"ok", "fail"} : generate_keys(secret_hex, w)
        \/ clear_keys)
            => /\ medium'.wallet_state = medium.wallet_state
               /\ wallet' = wallet
               /\ walletUp' = walletUp]_vars

\* a key call has just returned while the cached wallet holds a mint and its
\* blob is in the medium
C22_Witness ==
    /\ last.op \in {"generate_keys", "clear_keys"}
    /\ walletUp
    /\ wallet.mints # EmptyMap
    /\ medium.wallet_state = wallet_state_blob(wallet)

\* text of hex digits, two per byte
IsHexText(t) ==
    /\ Len(t) % 2 = 0
    /\ \A i \in 1..Len(t) :
            t[i] \in {HexChars[j] : j \in 1..16} \cup {UpperHex[j] : j \in 1..6}

\* text that is no decimal number: empty, or with a character that is
\* neither a digit nor a sign
NonDecimal(t) ==
    t = <<>> \/ \E i \in 1..Len(t) : t[i] \notin {DecChars[j] : j \in 1..10} \cup {"+"}

\* the key k of index f has an invalid encoding
InvalidKey(f, k) ==
    IF f \in HexIndexes THEN ~IsHexText(k)
    ELSE IF f \in IdIndexes THEN ~IsHexText(k) \/ Len(k) # 2 * EventIdLen
    ELSE \/ Cardinality({i \in 1..Len(k) : k[i] = ":"}) # 1
         \/ LET c == CHOOSE i \in 1..Len(k) : k[i] = ":"
            IN ~IsHexText(SubSeq(k, 1, c - 1)) \/ NonDecimal(SubSeq(k, c + 1, Len(k)))

\* the blob does not parse, or some key of some index of its document has an
\* invalid encoding
Undecodable(blob) ==
    \/ blob.kind = "garbage"
    \/ /\ blob.kind = "json"
       /\ \E f \in HexIndexes \cup IdIndexes \cup SecretIndexes :
            \E kv \in blob.doc[f] : InvalidKey(f, kv[1])

\* C23: decoding is all-or-nothing.  A store constructed from a
\* protocol-state blob that does not parse, or in which a single key of any
\* index has an invalid encoding, has all nine indexes empty
C23_DecodeAllOrNothing ==
    [][(\E w \in MdkWrites : MdkNew(w)) /\ mdkUp' /\ Undecodable(medium.mdk_state)
            => mdk' = MdkDefault /\ ~last'.loaded]_vars

\* a store was constructed from a blob that did not decode, and is empty
\* though that blob was there
C23_Witness ==
    /\ mdkUp
    /\ last.op = "mdk_new"
    /\ ~last.loaded
    /\ last.res = "ok"
    /\ mdk = MdkDefault

\* C24: save_group is atomic for concurrent callers.  No lookup that runs
\* while a save_group(g) is running finds g in one of the two group indexes
\* while the other index lacks it
C24_SaveGroupAtomic ==
    \A r \in Callers : "torn" \in DOMAIN obs[r] => ~obs[r].torn

\* a lookup has returned the group a save_group, still running, has inserted
C24_Witness ==
    \E r \in Callers :
        /\ "saving" \in DOMAIN obs[r]
        /\ obs[r].ret.some
        /\ obs[r].ret.val \in obs[r].saving

\* C25: the engine's sub-store is persisted and restored byte for byte.  For
\* every mapping the store can hold, the blob a snapshot writes decodes to
\* the same mapping, and a store constructed from a medium starts with
\* exactly what the openmls_storage blob decodes to, whether or not the
\* mdk_state blob decodes
C25_EngineBlobRoundTrip ==
    /\ [](mdkUp =>
            load_openmls_storage(save_snapshot_medium(medium, mdk, openmls, "ok"))
                = Ok(openmls))
    /\ [][(\E w \in MdkWrites : MdkNew(w)) /\ mdkUp'
            => Ok(openmls') = load_openmls_storage(medium)]_vars

\* a store constructed from a medium without a decodable mdk_state blob
\* holds an empty key with a value and a key with an empty value
C25_Witness ==
    /\ mdkUp
    /\ last.op = "mdk_new"
    /\ ~last.loaded
    /\ DOMAIN openmls = {<<>>, <<0, 255>>}
    /\ openmls[<<>>] = <<10>>
    /\ openmls[<<0, 255>>] = <<>>

\* C26: replace_group_relays(g, S) replaces.  After the call group_relays(g)
\* is exactly the set of relays built from S, and the relay set of every
\* other group is what it was
C26_ReplaceGroupRelays ==
    [][\A g \in GroupIds, relays \in SUBSET RelayUrls, w \in TraitWrites :
        replace_group_relays(g, relays, w)
            => /\ group_relays(mdk', g)
                    = {[relay_url |-> url, mls_group_id |-> g] : url \in relays}
               /\ \A h \in GroupIds \ {g} : group_relays(mdk', h) = group_relays(mdk, h)]_vars

\* a group with two relays (still in the blob, whose write failed) was given
\* one of them as its new set, while the other group has relays
C26_Witness ==
    /\ mdkUp
    /\ last.op = "replace_group_relays"
    /\ last.arg = <<<<1>>, {"wss://r2"}>>
    /\ last.wfail
    /\ load_mdk_state(medium).ok
    /\ Cardinality(group_relays(load_mdk_state(medium).val, <<1>>)) = 2
    /\ Cardinality(group_relays(mdk, <<1>>)) = 1
    /\ group_relays(mdk, <<171, 2>>) # {}

\* C27: exporter secrets are keyed by (group id, epoch), the last write wins.
\* After save_group_exporter_secret(v) the lookup under v's group and epoch
\* returns v, and the lookup under every other key returns what it did
C27_ExporterSecretLastWriteWins ==
    [][\A x \in GroupExporterSecrets, w \in TraitWrites :
        save_group_exporter_secret(x, w)
            => /\ get_group_exporter_secret(mdk', x.mls_group_id, x.epoch) = Some(x)
               /\ \A g \in GroupIds, e \in Epochs :
                    <<g, e>> # <<x.mls_group_id, x.epoch>>
                        => get_group_exporter_secret(mdk', g, e)
                            = get_group_exporter_secret(mdk, g, e)]_vars

\* a secret was saved over another one of the same group and epoch (still in
\* the blob, whose write failed), while the same group has one under another
\* epoch
C27_Witness ==
    /\ mdkUp
    /\ last.op = "save_group_exporter_secret"
    /\ last.wfail
    /\ load_mdk_state(medium).ok
    /\ LET old == get_group_exporter_secret(load_mdk_state(medium).val,
                                            last.arg.mls_group_id, last.arg.epoch)
       IN old.some /\ old.val # last.arg
    /\ get_group_exporter_secret(mdk, last.arg.mls_group_id, last.arg.epoch) = Some(last.arg)
    /\ \E e \in Epochs \ {last.arg.epoch} :
            get_group_exporter_secret(mdk, last.arg.mls_group_id, e).some

\* the keys no call of SpecLookups stores, by lookup
NeverStored ==
    [find_group_by_mls_group_id |-> {<<171, 2>>},
     find_group_by_nostr_group_id |-> {[i \in 1..NostrIdLen |-> 254]},
     messages |-> {<<171, 2>>},
     admins |-> {<<171, 2>>},
     group_relays |-> {<<171, 2>>},
     get_group_exporter_secret |-> {<<g, e>> : g \in GroupIds, e \in Epochs} \ {<<<<1>>, 0>>},
     find_message_by_event_id |-> {[i \in 1..EventIdLen |-> 175]},
     find_processed_message_by_event_id |-> {[i \in 1..EventIdLen |-> 175]},
     find_welcome_by_event_id |-> {[i \in 1..EventIdLen |-> 175]},
     find_processed_welcome_by_event_id |-> {[i \in 1..EventIdLen |-> 175]},
     get_mint |-> {"https://m2"},
     get_mint_keysets |-> {"https://m2"},
     get_keyset_by_id |-> {"k2"},
     get_mint_quote |-> {"q2"},
     get_melt_quote |-> {"q2"},
     get_keys |-> {"k2"},
     get_transaction |-> {{"y1", "y2"}}]

\* C28: absence is never an error.  Every lookup returns with a success
\* status, and a lookup for a key that was never stored returns an empty
\* list (messages), an empty set (admins, group_relays) or none (every find_
\* and get_ operation)
C28_AbsenceIsNoError ==
    last.op \in DOMAIN NeverStored
        => /\ last.res = "ok"
           /\ last.arg \in NeverStored[last.op]
                => IF last.op = "messages" THEN last.ret = <<>>
                   ELSE IF last.op \in {"admins", "group_relays"} THEN last.ret = {}
                   ELSE last.ret = None

\* the messages of a group without messages were asked for while another
\* group has messages, and the list returned is empty
C28_Witness ==
    /\ last.op = "messages"
    /\ last.arg = <<171, 2>>
    /\ last.ret = <<>>
    /\ messages(mdk, <<1>>) # <<>>

\* C29: transaction lookup by content-derived id.  After add_transaction(t)
\* get_transaction(id(t)) returns t; after remove_transaction(i)
\* get_transaction(i) returns none and the transactions with another id are
\* stored as before, in their order
C29_TransactionById ==
    [][/\ \A t \in LogTransactions, w \in WalletWrites :
            add_transaction(t, w)
                => get_transaction(wallet', TransactionId(t.ys)) = Some(t)
       /\ \A i \in LogIds :
            remove_transaction(i, "ok")
                => /\ get_transaction(wallet', i) = None
                   /\ wallet'.transactions
                        = AtPositions(wallet.transactions,
                                      {k \in 1..Len(wallet.transactions) :
                                            TransactionId(wallet.transactions[k].ys) # i})]_vars

\* transaction t passes the supplied filters of f
PassesTransactionFilters(t, f) ==
    /\ f.mint_url.some => t.mint_url = f.mint_url.val
    /\ f.direction.some => t.direction = f.direction.val
    /\ f.unit.some => t.unit = f.unit.val

\* C30: list_transactions returns, in the order the transactions were added,
\* exactly the stored transactions that satisfy every supplied filter, a
\* filter not supplied excluding nothing; a transaction added is the last of
\* the list
C30_ListTransactions ==
    /\ [][\A mint_url \in {None, Some("https://m1")}, direction \in {None, Some("Incoming")},
             unit \in {None, Some("sat")} :
            list_transactions_call(mint_url, direction, unit)
                => LET l == wallet.transactions
                   IN /\ last'.res = "ok"
                      /\ last'.ret
                            = AtPositions(l, {k \in 1..Len(l) :
                                                PassesTransactionFilters(l[k], last'.arg)})
                      /\ wallet' = wallet]_vars
    /\ [][\A t \in LogTransactions, w \in WalletWrites :
            add_transaction(t, w)
                => list_transactions(wallet', None, None, None)
                        = Append(list_transactions(wallet, None, None, None), t)]_vars

\* a call with a unit filter and no direction filter returned two different
\* transactions of the three stored
C30_Witness ==
    /\ walletUp
    /\ last.op = "list_transactions"
    /\ last.arg.unit.some
    /\ ~last.arg.direction.some
    /\ Len(wallet.transactions) = 3
    /\ Len(last.ret) = 2
    /\ last.ret[1] # last.ret[2]

\* C31: the two keyset indexes stay consistent under add_mint_keysets.
\* get_keyset_by_id(id) returns a keyset exactly if the current list of some
\* mint holds a keyset with that id, and the record returned is one of those
C31_KeysetIndexesConsistent ==
    walletUp =>
        \A id \in KeysetIds :
            LET r == get_keyset_by_id(wallet, id)
                listed == {k \in KeySetInfos :
                            /\ k.id = id
                            /\ \E u \in DOMAIN wallet.keysets :
                                \E i \in 1..Len(wallet.keysets[u]) : wallet.keysets[u][i] = k}
            IN /\ r.some <=> listed # {}
               /\ r.some => r.val \in listed

\* the caller c is about to ask for the lock of the protocol state store
RequestsMdkLock(c) == pc[c] \in {"idle", "save_mdk_state"}

\* the caller c is about to ask for the lock of the singleton cache
RequestsCacheLock(c) == pc[c] = "idle"

\* the caller c is inside the construction the cache lock guards
InsideCacheGuard(c) == pc[c] \in {"storage_check", "storage_new"}

\* C32: no operation asks for its store's exclusive lock while it still holds
\* it (the lock taken for the mutation is released before save_mdk_state takes
\* it again), the construction guarded by the cache lock never asks for the
\* cache lock again, and under fair scheduling every caller is back outside
\* its operation again and again: a caller waiting for the store's lock
\* obtains it, and every call that was entered returns.
C32_LocksTerminate ==
    /\ [](\A c \in Callers :
            /\ RequestsMdkLock(c) => mdkLock # c
            /\ RequestsCacheLock(c) => cacheLock.storage # c
            /\ InsideCacheGuard(c) => cacheLock.storage = c
            /\ frame[c].op = "save_group" /\ pc[c] = "save_mdk_state" => mdkLock # c)
    /\ \A c \in Callers : []<>(pc[c] = "idle")

\* a save_group that has released the lock waits for it in save_mdk_state
\* while another caller holds it
C32_Witness ==
    \E c \in Callers, d \in Callers :
        /\ c # d
        /\ pc[c] = "save_mdk_state"
        /\ frame[c].op = "save_group"
        /\ mdkLock = d

\* a set or a delete of the engine on its sub-store
EngineStep ==
    \/ \E k \in EngineKeys, v \in EngineValues : engine_set(k, v)
    \/ \E k \in EngineKeys : engine_delete(k)

\* a mutating operation of the protocol store, or save_storage
SnapshotStep ==
    \/ \E wl \in SomeWelcomes, w \in MdkWrites : save_welcome(wl, w)
    \/ \E w0 \in MdkWrites, w \in MdkWrites : save_storage(w0, w)

\* C33: a set or a delete of the engine on its sub-store writes nothing to the
\* medium, and after every snapshot that succeeded (a mutating operation of
\* the protocol store, or save_storage) the openmls_storage blob decodes to
\* exactly what the sub-store holds at that moment, so the engine's changes
\* are in the medium from the next successful snapshot on.
C33_SubstoreReachesMediumBySnapshot ==
    /\ [][EngineStep => medium' = medium]_vars
    /\ [][SnapshotStep /\ last'.res = "ok"
            => load_openmls_storage(medium') = Ok(openmls')]_vars

\* the engine has changed the sub-store since the last snapshot, so the blob
\* in the medium decodes to something else
SubstoreAhead == mdkUp /\ load_openmls_storage(medium) # Ok(openmls)

\* save_storage has just written a sub-store that is not empty
C33_Witness ==
    /\ last.op = "save_storage"
    /\ last.res = "ok"
    /\ openmls # EmptyMap
    /\ load_openmls_storage(medium) = Ok(openmls)

\* C34: a snapshot of the protocol store writes the mdk_state blob before the
\* openmls_storage blob, and comes to the openmls_storage write only by the
\* step that wrote its own mdk_state blob: no step writes both, the
\* openmls_storage blob changes only in the last step of a snapshot, and a
\* snapshot whose mdk_state write failed returns without reaching it.  So a
\* snapshot that failed or was cut short leaves at most a newer mdk_state next
\* to an older openmls_storage.
C34_MdkStateBeforeOpenmls ==
    /\ [][medium'.mdk_state # medium.mdk_state
            => medium'.openmls_storage = medium.openmls_storage]_vars
    /\ [][medium'.openmls_storage # medium.openmls_storage
            => \E c \in Callers : pc[c] = "save_openmls_storage" /\ pc'[c] = "idle"]_vars
    /\ [][\A c \in Callers :
            pc'[c] = "save_openmls_storage" /\ pc[c] # "save_openmls_storage"
                => /\ pc[c] = "set_item"
                   /\ medium'.mdk_state = frame[c].snapshot]_vars
    /\ [][\A c \in Callers, w \in TraitWrites :
            save_mdk_state_set_item(c, w) /\ w # "ok"
                => /\ pc'[c] = "idle"
                   /\ obs'[c] = Returned("err")
                   /\ medium' = medium]_vars

\* a snapshot between its two writes: the medium has the mdk_state blob of
\* this snapshot, with a message in it, next to an openmls_storage blob that
\* is older than the sub-store
C34_Witness ==
    \E c \in Callers :
        /\ pc[c] = "save_openmls_storage"
        /\ medium.mdk_state = frame[c].snapshot
        /\ medium.mdk_state # mdk_state_blob(MdkDefault)
        /\ load_openmls_storage(medium) # Ok(openmls)

\* C35: the two message indexes never disagree.  Every message held in a
\* per-group list is what find_message_by_event_id returns for its event id,
\* with the same content and the same group id.
C35_MessageIndexesAgree ==
    mdkUp =>
        \A g \in DOMAIN mdk.messages_by_group :
            \A i \in 1..Len(messages(mdk, g)) :
                LET m == messages(mdk, g)[i]
                IN find_message_by_event_id(mdk, m.id) = Some(m)

\* C36: a constructor that returns success has written an initial snapshot.
\* After a successful MdkHybridStorage::new the mdk_state and openmls_storage
\* blobs decode to the constructed state and sub-store, after a successful
\* HybridWalletDatabase::new the wallet_state blob decodes to the constructed
\* wallet state, and where the blob found at load time did not decode the
\* constructed state is the empty one and the blob has been replaced by the
\* snapshot of it.
C36_ConstructorWritesSnapshot ==
    /\ [][(\E w \in MdkWrites : MdkNew(w)) /\ last'.res = "ok"
            => /\ mdkUp'
               /\ load_mdk_state(medium') = Ok(mdk')
               /\ load_openmls_storage(medium') = Ok(openmls')
               /\ ~load_mdk_state(medium).ok
                    => mdk' = MdkDefault /\ medium'.mdk_state = mdk_state_blob(MdkDefault)]_vars
    /\ [][(\E w \in WalletWrites : WalletNew(w)) /\ last'.res = "ok"
            => /\ walletUp'
               /\ load_from_indexeddb(medium') = Ok(wallet')
               /\ ~load_from_indexeddb(medium).ok
                    => wallet' = WalletDefault
                       /\ medium'.wallet_state = wallet_state_blob(WalletDefault)]_vars

\* a protocol store constructed over an mdk_state blob that did not decode:
\* the medium now holds the empty snapshot
C36_Witness ==
    /\ last.op = "mdk_new"
    /\ last.res = "ok"
    /\ ~last.loaded
    /\ mdkUp
    /\ medium.mdk_state = mdk_state_blob(MdkDefault)
    /\ medium.wallet_state = Garbage

\* the parts of the wallet state other than the mint registry
OutsideMints(st) ==
    <<st.keysets, st.keyset_map, st.mint_quotes, st.melt_quotes, st.keys, st.proofs,
      st.keyset_counters, st.transactions>>

\* C37: remove_mint(url) removes only the registry entry of url.  The keyset
\* list stored under url, the flat keyset index, key material, quotes, proofs,
\* counters and transactions are unchanged, the other urls keep their
\* registry entries, and removing an url that is not registered changes
\* nothing in the state.
C37_RemoveMintOnlyRegistry ==
    [][\A u \in MintUrls, w \in WalletWrites :
        remove_mint(u, w)
            => /\ OutsideMints(wallet') = OutsideMints(wallet)
               /\ DOMAIN wallet'.mints = DOMAIN wallet.mints \ {u}
               /\ \A v \in DOMAIN wallet'.mints : wallet'.mints[v] = wallet.mints[v]
               /\ u \notin DOMAIN wallet.mints => wallet' = wallet]_vars

\* the mint has just been removed from the registry, and its keyset list is
\* still stored under its url
C37_Witness ==
    /\ last.op = "remove_mint"
    /\ last.arg = "https://m1"
    /\ last.res = "ok"
    /\ "https://m1" \notin DOMAIN wallet.mints
    /\ "https://m1" \in DOMAIN wallet.keysets

\* C38: read operations have no effect.  Every lookup, listing and filter of
\* the two stores leaves the in-memory state of both stores and the engine's
\* sub-store as it was and writes nothing to the medium.
C38_ReadsHaveNoEffect ==
    [][PointReads \/ ListingReads
        => /\ medium' = medium
           /\ mdk' = mdk
           /\ openmls' = openmls
           /\ wallet' = wallet
           /\ mdkUp' = mdkUp
           /\ walletUp' = walletUp]_vars

\* pending_welcomes has returned a welcome that is in the state and not in
\* the medium, because the snapshot write of its save_welcome failed
C38_Witness ==
    /\ last.op = "pending_welcomes"
    /\ last.res = "ok"
    /\ last.ret # {}
    /\ load_mdk_state(medium) # Ok(mdk)

====
